---- MODULE Spec2Model ----
(***************************************************************************)
(* State-machine model of the seizure detection core.                      *)
(*                                                                         *)
(* Scores, risks and thresholds are floats in [0,1] in the source; here    *)
(* they are integers in hundredths (0.75 is 75), which keeps every         *)
(* comparison of the source exact.                                         *)
(***************************************************************************)
EXTENDS Integers, Sequences, FiniteSets, TLC

(***************************************************************************)
(* Program constants (config.py, decision_engine.py).                      *)
(***************************************************************************)
FPS_ASSUMED == 30
DURATION_THRESHOLD == 25
COOLDOWN_FRAMES == 150
MOTION_THRESHOLD == 75

STATE_IDLE == 0
STATE_ANALYZING == 1
STATE_ALERT == 2
STATE_COOLDOWN == 3

\* deque(maxlen=15) of DecisionEngine.motion_history
HISTORY_MAXLEN == 15

\* Python's None, as a detection type, a reason or a trigger reason
None == "None"

\* Python's None where a bounding box (x, y, w, h) is expected
NoBox == << >>

FG_STABILITY_THRESHOLD == 20
FG_LOST_FRAMES_MAX == 15

BUFFER_SIZE == 90
MOTION_EMA_ALPHA == 15
MOTION_NOISE_FLOOR == 80

\* The smoothed score and the confidence are floats that are never
\* negative; what is kept of them is whether they are 0.0 or above.
ZeroScore == "0.0"
PositiveScore == "above 0.0"

(***************************************************************************)
(* Bounds of the model.                                                    *)
(***************************************************************************)
\* alert_count is unbounded in the source; runs stop triggering after this many
MaxAlerts == 2
\* frame rates explored for the duration table
MaxFps == 120
\* frames fed in an end-to-end scenario
MaxScenarioFrames == 300

VARIABLES
    fps,                 \* DecisionEngine.fps
    state,               \* DecisionEngine.state
    consecutive_frames,  \* DecisionEngine.consecutive_frames
    cooldown_timer,      \* DecisionEngine.cooldown_timer
    display_timer,       \* DecisionEngine.display_timer
    alert_count,         \* DecisionEngine.alert_count
    motion_history,      \* DecisionEngine.motion_history
    last_trigger_reason, \* DecisionEngine.last_trigger_reason
    last_risk_score,     \* DecisionEngine.last_risk_score
    threshold,           \* local `threshold` of the last process() call
    is_alert,            \* first component of the last process() result
    debug_data,          \* second component of the last process() result
    motion_level,        \* environment: the motion score currently reported
    frame_no,            \* environment: frames fed so far in a scenario
    scenario,            \* environment: which end-to-end scenario is run
    alerts_in_run,       \* observer: alert=true results in the current run of classified frames
    since_run_alert,     \* observer: frames processed since the latest of them
    alerts_total,        \* observer: alert=true results since the engine was constructed
    since_trigger,       \* observer: process calls since the last alert=true, none or reset() since
    durations,           \* results of the _get_duration_frames calls made so far
    frame,               \* input of the last classification whose result is kept
    analysis,            \* result of that call
    phase,               \* replay: "age", "reset_run" or "fresh_run"
    reset_during,        \* replay: what the engine was doing when reset() was called
    trace,               \* replay: the frames fed to the engine after reset()
    reset_alerts,        \* replay: the alert results it returned for them
    fresh_alerts,        \* replay: the alert results of a new engine for the same frames
    prev_bbox,           \* ForegroundIsolator.prev_bbox
    lost_frames,         \* ForegroundIsolator.lost_frames
    stable_bbox,         \* ForegroundIsolator.stable_bbox
    current_bbox,        \* argument of the last _stabilize_tracking call
    roi,                 \* result of the last _stabilize_tracking call
    raised,              \* exception the last _stabilize_tracking call raised, or None
    none_run,            \* observer: consecutive no-detection calls up to the last call
    run_after_accept,    \* observer: the last detection call accepted its box
    box_a,               \* scenario C: the original box
    box_b,               \* scenario C: the competing box
    box1,                \* first argument of the last direct _calculate_iou call
    box2,                \* second argument of that call
    iou,                 \* result of that call
    prev_gray,           \* MotionAnalyzer.prev_gray, as the shape of the frame kept
    motion_buffer,       \* MotionAnalyzer.motion_buffer
    smoothed_score,      \* MotionAnalyzer.smoothed_score, as its sign
    signal,              \* environment: the kind of motion in front of the camera
    normalized_motion,   \* local `normalized_motion` of the last get_motion_score call
    pushed,              \* the sample that call appended to motion_buffer
    raw_score,           \* local `raw_score` of that call
    factor,              \* what that call multiplied the smoothed score by, in hundredths
    confidence,          \* result of that call, as its sign
    smoothed_value,      \* MotionAnalyzer.smoothed_score, as its value in hundredths
    returned,            \* result of the last get_motion_score call, in hundredths
    prev_positions,      \* PoseVelocityAnalyzer.prev_positions
    velocity_history,    \* PoseVelocityAnalyzer.velocity_history
    magnitude_history,   \* PoseVelocityAnalyzer.magnitude_history
    velocities,          \* result of the last PoseVelocityAnalyzer.update call
    update_result,       \* what that result is: "None", "dict", or "not called"
    nose_x_history,      \* FaceAnalyzer.nose_x_history
    pose_seen,           \* the last frame had pose landmarks
    face_seen,           \* the last frame had face landmarks
    stale,               \* observer: landmarks whose previous position dates from before a loss
    stale_measured,      \* observer: landmarks the last update measured against such a position
    left_score,          \* local `left_score` of the last _calculate_symmetry call
    right_score,         \* local `right_score` of that call
    symmetry,            \* result of that call
    clock,               \* time.time(), in seconds
    _last_alert_time,    \* AlertManager._last_alert_time
    _alert_count,        \* AlertManager._alert_count
    _is_playing,         \* AudioAlert._is_playing
    _cached_location,    \* LocationService._cached_location
    _cache_time,         \* LocationService._cache_time
    emergency_contact_email, \* AlertConfig: the "emergency_contact_email" entry
    op,                  \* what happened last to the AlertManager
    triggered,           \* result of the last trigger_alert call
    audio_started,       \* that call started the audio thread
    email_started,       \* that call started the email thread
    foreground_requests, \* HTTP requests that call made and waited for in the caller's thread
    last_true_time,      \* observer: time of the last trigger_alert call that returned True
    true_gap,            \* observer: seconds between the last two such calls
    reset_since,         \* observer: reset() has been called since the last such call
    gap_reset,           \* observer: reset() was called between the last two such calls
    frames_as,           \* observer: frames classified as each sub-type since the last trigger or reset
    alive,               \* AudioAlert: the playback worker threads that are running
    started,             \* AudioAlert: worker threads started so far
    _stop_flag,          \* AudioAlert._stop_flag
    _play_thread,        \* AudioAlert._play_thread
    people,              \* PoseAnalyzer.people
    next_id,             \* PoseAnalyzer.next_id
    detections,          \* the poses of the last frame handed to _match_persons
    matched_ids,         \* the person ids _match_persons yielded for them
    removed_ids          \* observer: ids of the people removed as stale so far

engine_vars == <<fps, state, consecutive_frames, cooldown_timer, display_timer,
                 alert_count, motion_history, last_trigger_reason,
                 last_risk_score, threshold, is_alert, debug_data>>
env_vars == <<motion_level, frame_no, scenario>>
observer_vars == <<alerts_in_run, since_run_alert, alerts_total, since_trigger>>
query_vars == <<durations, frame, analysis>>
replay_vars == <<phase, reset_during, trace, reset_alerts, fresh_alerts>>
tracker_vars == <<prev_bbox, lost_frames, stable_bbox, current_bbox, roi, raised,
                  none_run, run_after_accept, box_a, box_b>>
iou_vars == <<box1, box2, iou>>
analyzer_vars == <<prev_gray, motion_buffer, smoothed_score, signal,
                   normalized_motion, pushed, raw_score, factor, confidence>>
score_vars == <<smoothed_value, returned>>
pose_vars == <<prev_positions, velocity_history, magnitude_history, velocities,
               update_result, nose_x_history, pose_seen, face_seen, stale,
               stale_measured>>
symmetry_vars == <<left_score, right_score, symmetry>>
alert_vars == <<clock, _last_alert_time, _alert_count, _is_playing, _cached_location,
                _cache_time, emergency_contact_email, op, triggered, audio_started,
                email_started, foreground_requests, last_true_time, true_gap,
                reset_since, gap_reset>>
credit_vars == <<frames_as>>
audio_vars == <<alive, started, _stop_flag, _play_thread>>
person_vars == <<people, next_id, detections, matched_ids, removed_ids>>
late_vars == <<credit_vars, audio_vars, person_vars>>
unit_vars == <<score_vars, pose_vars, symmetry_vars, alert_vars, late_vars>>
component_vars == <<replay_vars, tracker_vars, iou_vars, analyzer_vars, unit_vars>>
vars == <<engine_vars, env_vars, observer_vars, query_vars, component_vars>>

Max(a, b) == IF a >= b THEN a ELSE b
Min(a, b) == IF a <= b THEN a ELSE b

\* dict.get(key, default)
Get(d, key, default) == IF key \in DOMAIN d THEN d[key] ELSE default

\* deque.append on a deque with maxlen: the oldest entry falls out when full
DequeAppend(h, x) ==
    IF Len(h) < HISTORY_MAXLEN THEN Append(h, x) ELSE Append(Tail(h), x)

RECURSIVE SeqSum(_)
SeqSum(s) == IF s = <<>> THEN 0 ELSE Head(s) + SeqSum(Tail(s))

(***************************************************************************)
(* DecisionEngine: classification rules.                                   *)
(***************************************************************************)
\* np.mean(previous) > 0.3 and np.mean(recent) < 0.1 over five samples each:
\* the sums of five are compared with 5 * 30 and 5 * 10 hundredths
_detect_motion_drop(history) ==
    IF Len(history) < 10 THEN FALSE
    ELSE LET n == Len(history)
             recent == SubSeq(history, n - 4, n)
             previous == SubSeq(history, n - 9, n - 5)
         IN  SeqSum(previous) > 5 * 30 /\ SeqSum(recent) < 5 * 10

Result(risk_score, detection_type, reason) ==
    [risk_score |-> risk_score, detection_type |-> detection_type, reason |-> reason]

\* The rules in the order the spec lists them (ATONIC and general CLONIC
\* before silent TONIC); used only to show what a reordering would change.
analyze_spec_order(history, motion_data, pose_data, face_data) ==
    LET motion_score == Get(motion_data, "score", 0)
        tremor_score == Get(pose_data, "tremor", 0)
        is_rigid == Get(pose_data, "is_rigid", FALSE)
        is_fallen == Get(pose_data, "is_fallen", FALSE)
        is_slumping == Get(pose_data, "is_slumping", is_fallen)
        head_shake == Get(face_data, "head_shake_score", 0)
        facial_distortion == Get(face_data, "facial_distortion", 0)
        mouth_open == Get(face_data, "mouth_open_wide", FALSE)
    IN  IF head_shake > 75 /\ facial_distortion > 60
          THEN Result(95, "CLONIC", "Violent head shaking + facial distortion")
        ELSE IF is_rigid /\ mouth_open /\ motion_score < 30
          THEN Result(90, "TONIC", "Body rigidity + mouth open (gasping)")
        ELSE IF is_fallen /\ _detect_motion_drop(history)
          THEN Result(95, "ATONIC", "Fall + motion collapse")
        ELSE IF motion_score > 60 /\ tremor_score > 50
          THEN Result(85, "CLONIC", "High motion + rhythmic tremor")
        ELSE IF motion_score < 20 /\ is_rigid /\ is_slumping
          THEN Result(85, "TONIC", "Low motion + rigidity + posture loss")
        ELSE IF head_shake > 65 /\ motion_score > 40
          THEN Result(70, "POSSIBLE", "Head shaking + elevated motion")
        ELSE IF is_fallen /\ motion_score > 30
          THEN Result(60, "FALL", "Fall detected with motion")
        ELSE IF motion_score > 50 /\ tremor_score < 10 /\ head_shake < 20 /\ ~is_rigid
          THEN Result(10, None, "Normal movement (filtered)")
        ELSE Result(0, None, None)

\* analyze_multimodal_frame; `history` is self.motion_history after the
\* append of line 66 (the caller performs the append)
analyze_multimodal_frame(history, motion_data, pose_data, face_data) ==
    LET motion_score == Get(motion_data, "score", 0)
        tremor_score == Get(pose_data, "tremor", 0)
        is_rigid == Get(pose_data, "is_rigid", FALSE)
        is_fallen == Get(pose_data, "is_fallen", FALSE)
        is_slumping == Get(pose_data, "is_slumping", is_fallen)
        head_shake == Get(face_data, "head_shake_score", 0)
        facial_distortion == Get(face_data, "facial_distortion", 0)
        mouth_open == Get(face_data, "mouth_open_wide", FALSE)
    IN  IF head_shake > 75 /\ facial_distortion > 60
          THEN Result(95, "CLONIC", "Violent head shaking + facial distortion")
        ELSE IF is_rigid /\ mouth_open /\ motion_score < 30
          THEN Result(90, "TONIC", "Body rigidity + mouth open (gasping)")
        ELSE IF motion_score < 20 /\ is_rigid /\ is_slumping
          THEN Result(85, "TONIC", "Low motion + rigidity + posture loss")
        ELSE IF is_fallen /\ _detect_motion_drop(history)
          THEN Result(95, "ATONIC", "Fall + motion collapse")
        ELSE IF motion_score > 60 /\ tremor_score > 50
          THEN Result(85, "CLONIC", "High motion + rhythmic tremor")
        ELSE IF head_shake > 65 /\ motion_score > 40
          THEN Result(70, "POSSIBLE", "Head shaking + elevated motion")
        ELSE IF is_fallen /\ motion_score > 30
          THEN Result(60, "FALL", "Fall detected with motion")
        ELSE IF motion_score > 50 /\ tremor_score < 10 /\ head_shake < 20 /\ ~is_rigid
          THEN Result(10, None, "Normal movement (filtered)")
        ELSE Result(0, None, None)

(***************************************************************************)
(* DecisionEngine: thresholds and durations.                               *)
(***************************************************************************)
DetectionTypes == {"CLONIC", "TONIC", "ATONIC", "FALL", "POSSIBLE", None}

\* a threshold every classification reaches
_get_threshold_lenient(detection_type) == 5

\* every risk threshold raised to 0.95, above the risk of a gasping TONIC frame
_get_threshold_strict(detection_type) == 95

_get_threshold(detection_type) ==
    CASE detection_type = "CLONIC" -> 70
      [] detection_type = "TONIC" -> 60
      [] detection_type = "ATONIC" -> 50
      [] detection_type = "FALL" -> 50
      [] detection_type = "POSSIBLE" -> 65
      [] detection_type = None -> 70
      [] OTHER -> 70

\* Frame rates at which the double product 0.7 * fps falls just below the
\* exact product, so that int() yields one less (0.7 * 90 = 62.99999999999999)
Float07Low == {90, 170, 180}

\* int(c * fps) for the float literal c = num / 100 and an integer fps <= 300
IntOfProduct(num, f) ==
    IF num = 70 /\ f \in Float07Low THEN (num * f) \div 100 - 1
    ELSE (num * f) \div 100

\* ATONIC given the duration of POSSIBLE and the reverse
_get_duration_frames_swapped(detection_type) ==
    CASE detection_type = "ATONIC" -> Max(20, IntOfProduct(70, fps))
      [] detection_type = "TONIC" -> Max(10, IntOfProduct(40, fps))
      [] detection_type = "CLONIC" -> Max(15, IntOfProduct(50, fps))
      [] detection_type = "FALL" -> Max(8, IntOfProduct(30, fps))
      [] detection_type = "POSSIBLE" -> Max(5, IntOfProduct(25, fps))
      [] detection_type = None -> Max(15, IntOfProduct(50, fps))
      [] OTHER -> 15

_get_duration_frames(detection_type) ==
    CASE detection_type = "ATONIC" -> Max(5, IntOfProduct(25, fps))
      [] detection_type = "TONIC" -> Max(10, IntOfProduct(40, fps))
      [] detection_type = "CLONIC" -> Max(15, IntOfProduct(50, fps))
      [] detection_type = "FALL" -> Max(8, IntOfProduct(30, fps))
      [] detection_type = "POSSIBLE" -> Max(20, IntOfProduct(70, fps))
      [] detection_type = None -> Max(15, IntOfProduct(50, fps))
      [] OTHER -> 15

\* int(3 * self.fps)
DisplayFrames == 3 * fps

\* Status labels are f-strings in the source; a label is modelled as the
\* triple <<kind, inserted name, inserted number>>.
_get_status(counter, risk_score, detection_type) ==
    IF counter > 3
      THEN <<"ANALYZING", IF detection_type = None THEN "MOTION" ELSE detection_type, 0>>
    ELSE IF risk_score > 40 THEN <<"ELEVATED", "", 0>>
    ELSE <<"MONITORING", "", 0>>

(***************************************************************************)
(* DecisionEngine.process, one call per frame.                             *)
(***************************************************************************)
\* value of `threshold` in a call that returned before computing it
NotComputed == -1

\* what the telemetry variable holds before the first call and after reset()
NoTelemetry == [status |-> <<"NONE", "", 0>>]

\* the display branch never taken: the countdown is skipped
InDisplay_never == FALSE

\* line 152
InDisplay == display_timer > 0

\* the cooldown branch never taken
InCooldown_never == FALSE

\* line 163
InCooldown == cooldown_timer > 0

\* the unclassified frame takes two off the counter, without the floor at 0
CounterAfter_minus2(is_positive) ==
    IF is_positive THEN consecutive_frames + 1 ELSE consecutive_frames - 2

\* lines 180-184
CounterAfter(is_positive) ==
    IF is_positive THEN consecutive_frames + 1 ELSE Max(0, consecutive_frames - 1)

\* a frame that is not positive never takes the state back to IDLE
StateAfter_never_idle(is_positive, counter) ==
    IF is_positive THEN STATE_ANALYZING ELSE state

\* lines 182, 185-186
StateAfter(is_positive, counter) ==
    IF is_positive THEN STATE_ANALYZING
    ELSE IF counter = 0 THEN STATE_IDLE ELSE state

\* a display frame that runs the cooldown countdown as well
DisplayPath_runs_cooldown(r) ==
    /\ display_timer' = display_timer - 1
    /\ cooldown_timer' = cooldown_timer - 1
    /\ is_alert' = FALSE
    /\ debug_data' = [status |-> <<"ALERT_DISPLAY", last_trigger_reason,
                                   (display_timer - 1) \div fps>>,
                      risk |-> r.risk_score,
                      counter |-> 0,
                      type |-> last_trigger_reason,
                      reason |-> r.reason]
    /\ threshold' = NotComputed
    /\ UNCHANGED <<state, consecutive_frames, alert_count, last_trigger_reason>>

\* lines 152-160
DisplayPath(r) ==
    /\ display_timer' = display_timer - 1
    /\ is_alert' = FALSE
    /\ debug_data' = [status |-> <<"ALERT_DISPLAY", last_trigger_reason,
                                   (display_timer - 1) \div fps>>,
                      risk |-> r.risk_score,
                      counter |-> 0,
                      type |-> last_trigger_reason,
                      reason |-> r.reason]
    /\ threshold' = NotComputed
    /\ UNCHANGED <<state, consecutive_frames, cooldown_timer, alert_count,
                   last_trigger_reason>>

\* a cooldown frame that also puts the state back to IDLE
CooldownPath_idles(r) ==
    /\ cooldown_timer' = cooldown_timer - 1
    /\ state' = STATE_IDLE
    /\ is_alert' = FALSE
    /\ debug_data' = [status |-> <<"MONITORING", "", 0>>,
                      risk |-> r.risk_score,
                      counter |-> 0,
                      type |-> None,
                      reason |-> None]
    /\ threshold' = NotComputed
    /\ UNCHANGED <<consecutive_frames, display_timer, alert_count,
                   last_trigger_reason>>

\* lines 163-171
CooldownPath(r) ==
    /\ cooldown_timer' = cooldown_timer - 1
    /\ is_alert' = FALSE
    /\ debug_data' = [status |-> <<"MONITORING", "", 0>>,
                      risk |-> r.risk_score,
                      counter |-> 0,
                      type |-> None,
                      reason |-> None]
    /\ threshold' = NotComputed
    /\ UNCHANGED <<state, consecutive_frames, display_timer, alert_count,
                   last_trigger_reason>>

\* the trigger starts the display countdown but no cooldown
Trigger_no_cooldown(r, counter, duration_frames) ==
    LET reason == IF r.detection_type = None THEN "SEIZURE" ELSE r.detection_type
    IN  /\ state' = STATE_ALERT
        /\ alert_count' = alert_count + 1
        /\ last_trigger_reason' = reason
        /\ display_timer' = DisplayFrames
        /\ cooldown_timer' = 0
        /\ consecutive_frames' = 0
        /\ is_alert' = TRUE
        /\ debug_data' = [status |-> <<"DETECTED", reason, 0>>,
                          risk |-> r.risk_score,
                          counter |-> duration_frames,
                          type |-> reason,
                          reason |-> r.reason,
                          alert_num |-> alert_count + 1]

\* the trigger leaves the counter where it was
Trigger_keeps_counter(r, counter, duration_frames) ==
    LET reason == IF r.detection_type = None THEN "SEIZURE" ELSE r.detection_type
    IN  /\ state' = STATE_ALERT
        /\ alert_count' = alert_count + 1
        /\ last_trigger_reason' = reason
        /\ display_timer' = DisplayFrames
        /\ cooldown_timer' = COOLDOWN_FRAMES
        /\ consecutive_frames' = counter
        /\ is_alert' = TRUE
        /\ debug_data' = [status |-> <<"DETECTED", reason, 0>>,
                          risk |-> r.risk_score,
                          counter |-> duration_frames,
                          type |-> reason,
                          reason |-> r.reason,
                          alert_num |-> alert_count + 1]

\* lines 189-204
Trigger(r, counter, duration_frames) ==
    LET reason == IF r.detection_type = None THEN "SEIZURE" ELSE r.detection_type
    IN  /\ state' = STATE_ALERT
        /\ alert_count' = alert_count + 1
        /\ last_trigger_reason' = reason
        /\ display_timer' = DisplayFrames
        /\ cooldown_timer' = COOLDOWN_FRAMES
        /\ consecutive_frames' = 0
        /\ is_alert' = TRUE
        /\ debug_data' = [status |-> <<"DETECTED", reason, 0>>,
                          risk |-> r.risk_score,
                          counter |-> duration_frames,
                          type |-> reason,
                          reason |-> r.reason,
                          alert_num |-> alert_count + 1]

\* lines 173-215
NormalPath(r) ==
    LET thr == _get_threshold(r.detection_type)
        duration_frames == _get_duration_frames(r.detection_type)
        is_positive == r.risk_score >= thr
        counter == CounterAfter(is_positive)
    IN  /\ threshold' = thr
        /\ IF counter >= duration_frames
             THEN Trigger(r, counter, duration_frames)
             ELSE /\ consecutive_frames' = counter
                  /\ state' = StateAfter(is_positive, counter)
                  /\ is_alert' = FALSE
                  /\ debug_data' = [status |-> _get_status(counter, r.risk_score,
                                                           r.detection_type),
                                    risk |-> r.risk_score,
                                    counter |-> counter,
                                    type |-> r.detection_type,
                                    reason |-> r.reason]
                  /\ UNCHANGED <<cooldown_timer, display_timer, alert_count,
                                 last_trigger_reason>>

\* lines 138-215
process(motion_data, pose_data, face_data) ==
    LET history == DequeAppend(motion_history, Get(motion_data, "score", 0))
        r == analyze_multimodal_frame(history, motion_data, pose_data, face_data)
    IN  /\ motion_history' = history
        /\ last_risk_score' = r.risk_score
        /\ fps' = fps
        /\ IF InDisplay THEN DisplayPath(r)
           ELSE IF InCooldown THEN CooldownPath(r)
           ELSE NormalPath(r)

\* a reset that leaves the two countdowns running
reset_keeps_timers ==
    /\ state' = STATE_IDLE
    /\ consecutive_frames' = 0
    /\ motion_history' = <<>>
    /\ is_alert' = FALSE
    /\ debug_data' = NoTelemetry
    /\ threshold' = NotComputed
    /\ UNCHANGED <<fps, cooldown_timer, display_timer, alert_count,
                   last_trigger_reason, last_risk_score>>

\* a reset that starts the alert count again
reset_clears_alert_count ==
    /\ state' = STATE_IDLE
    /\ consecutive_frames' = 0
    /\ cooldown_timer' = 0
    /\ display_timer' = 0
    /\ alert_count' = 0
    /\ motion_history' = <<>>
    /\ is_alert' = FALSE
    /\ debug_data' = NoTelemetry
    /\ threshold' = NotComputed
    /\ UNCHANGED <<fps, last_trigger_reason, last_risk_score>>

\* DecisionEngine.reset(), lines 252-258; a call of reset() returns nothing
reset ==
    /\ state' = STATE_IDLE
    /\ consecutive_frames' = 0
    /\ cooldown_timer' = 0
    /\ display_timer' = 0
    /\ motion_history' = <<>>
    /\ is_alert' = FALSE
    /\ debug_data' = NoTelemetry
    /\ threshold' = NotComputed
    /\ UNCHANGED <<fps, alert_count, last_trigger_reason, last_risk_score>>

\* an engine whose fields hold the constructor's values, except for the
\* motion history earlier analyze calls have left
EngineWith(f, history) ==
    /\ fps = f
    /\ state = STATE_IDLE
    /\ consecutive_frames = 0
    /\ cooldown_timer = 0
    /\ display_timer = 0
    /\ alert_count = 0
    /\ motion_history = history
    /\ last_trigger_reason = None
    /\ last_risk_score = 0
    /\ threshold = NotComputed
    /\ is_alert = FALSE
    /\ debug_data = NoTelemetry

\* DecisionEngine.__init__(fps)
EngineInit(f) == EngineWith(f, << >>)

(***************************************************************************)
(* Environment: the frames main() hands to the engine.                     *)
(***************************************************************************)
\* motion scores the motion analyzer may report; one level holds between
\* two resets, as its output is an exponentially smoothed score
MotionLevels == {10, 70}

\* pose_data of main.py lines 106-111 (is_slumping follows is_fallen there;
\* the engine also accepts a slump without a fall)
Poses ==
    { [is_rigid |-> p[1], is_fallen |-> p[2], is_slumping |-> p[3], tremor |-> t] :
        p \in { <<FALSE, FALSE, FALSE>>, <<TRUE, FALSE, FALSE>>, <<FALSE, TRUE, TRUE>>,
                <<TRUE, TRUE, TRUE>>, <<TRUE, FALSE, TRUE>> },
        t \in {0, 60} }

\* face_data of FaceAnalyzer.analyze
Faces ==
    { [head_shake_score |-> f[1], facial_distortion |-> f[2], mouth_open_wide |-> f[3]] :
        f \in { <<0, 0, FALSE>>, <<70, 0, FALSE>>, <<80, 70, FALSE>>, <<0, 0, TRUE>> } }

\* motion_data of main.py lines 88-91
MotionData(score) == [score |-> score, frequency |-> 0]

\* how the observers follow a process() call on a frame classified or not
ObserveRun(classified) ==
    LET cap == DisplayFrames + COOLDOWN_FRAMES
    IN  /\ IF ~classified
              THEN alerts_in_run' = 0 /\ since_run_alert' = 0
            ELSE IF is_alert'
              THEN alerts_in_run' = alerts_in_run + 1 /\ since_run_alert' = 0
            ELSE /\ alerts_in_run' = alerts_in_run
                 /\ since_run_alert' = IF alerts_in_run = 0 THEN 0
                                       ELSE Min(since_run_alert + 1, cap)
        /\ alerts_total' = IF is_alert' THEN alerts_total + 1 ELSE alerts_total
        /\ since_trigger' = IF is_alert' THEN 0
                            ELSE IF since_trigger = NotComputed THEN NotComputed
                            ELSE Min(since_trigger + 1, cap + 2)

\* no _calculate_iou call made yet
NoIou == <<0, 0>>

\* a dict without entries
EmptyDict == [name \in {} |-> 0]

\* the landmarks kept of PoseVelocityAnalyzer.LANDMARKS and the two sides
\* they belong to; the other ten are handled by the same loop
LANDMARKS == {"left_elbow", "left_wrist", "right_wrist"}
LEFT_SIDE == {"left_elbow", "left_wrist"}
RIGHT_SIDE == {"right_wrist"}

\* no _calculate_symmetry call made yet
NoSymmetry == <<0, 0>>

\* config.ALERT_COOLDOWN_SECONDS
ALERT_COOLDOWN_SECONDS == 30
\* LocationService._cache_duration
_cache_duration == 300
\* what time.time() returns when the program starts: seconds since 1970, far
\* more than any of the intervals above
StartTime == 1000
\* seconds between two readings of the clock
TickSeconds == 10

\* the sub-types analyze_multimodal_frame can name
SeizureTypes == {"CLONIC", "TONIC", "ATONIC", "FALL", "POSSIBLE"}
\* None for AudioAlert._play_thread
NoThread == 0

NoFrame == [motion |-> << >>, pose |-> << >>, face |-> << >>]
NoAnalysis == Result(-1, "", "")

\* every variable outside the engine but velocity_history, as left by the
\* constructors of main.py lines 30-35
ComponentInit ==
    /\ frame_no = 0
    /\ alerts_in_run = 0
    /\ since_run_alert = 0
    /\ alerts_total = 0
    /\ since_trigger = NotComputed
    /\ durations = << >>
    /\ frame = NoFrame
    /\ analysis = NoAnalysis
    /\ phase = "age"
    /\ reset_during = "never"
    /\ trace = << >>
    /\ reset_alerts = << >>
    /\ fresh_alerts = << >>
    /\ prev_bbox = NoBox
    /\ lost_frames = 0
    /\ stable_bbox = NoBox
    /\ current_bbox = NoBox
    /\ roi = NoBox
    /\ raised = None
    /\ none_run = 0
    /\ run_after_accept = FALSE
    /\ box_a = NoBox
    /\ box_b = NoBox
    /\ box1 = NoBox
    /\ box2 = NoBox
    /\ iou = NoIou
    /\ prev_gray = None
    /\ motion_buffer = << >>
    /\ smoothed_score = ZeroScore
    /\ signal = "still"
    /\ normalized_motion = NotComputed
    /\ pushed = NotComputed
    /\ raw_score = NotComputed
    /\ factor = NotComputed
    /\ confidence = ZeroScore
    /\ smoothed_value = 0
    /\ returned = 0
    /\ prev_positions = EmptyDict
    /\ magnitude_history = << >>
    /\ velocities = EmptyDict
    /\ update_result = "not called"
    /\ nose_x_history = << >>
    /\ pose_seen = FALSE
    /\ face_seen = FALSE
    /\ stale = {}
    /\ stale_measured = {}
    /\ left_score = NoSymmetry
    /\ right_score = NoSymmetry
    /\ symmetry = NoSymmetry
    /\ clock = StartTime
    /\ _last_alert_time = 0
    /\ _alert_count = 0
    /\ _is_playing = FALSE
    /\ _cached_location = None
    /\ _cache_time = 0
    /\ op = "__init__"
    /\ triggered = "not called"
    /\ audio_started = FALSE
    /\ email_started = FALSE
    /\ foreground_requests = 0
    /\ last_true_time = NotComputed
    /\ true_gap = NotComputed
    /\ reset_since = FALSE
    /\ gap_reset = FALSE
    /\ frames_as = [t \in SeizureTypes |-> 0]
    /\ alive = {}
    /\ started = 0
    /\ _stop_flag = FALSE
    /\ _play_thread = NoThread
    /\ people = EmptyDict
    /\ next_id = 1
    /\ detections = << >>
    /\ matched_ids = << >>
    /\ removed_ids = {}

EnvInit ==
    /\ ComponentInit
    /\ velocity_history = [name \in LANDMARKS |-> << >>]
    /\ emergency_contact_email = ""

(***************************************************************************)
(* Spec: the engine of main.py under arbitrary frames and resets.          *)
(***************************************************************************)
Init ==
    /\ EngineInit(FPS_ASSUMED)
    /\ motion_level \in MotionLevels
    /\ scenario = "none"
    /\ EnvInit

\* main.py line 117
ProcessFrame ==
    \E pose \in Poses, face \in Faces :
        LET md == MotionData(motion_level)
            history == DequeAppend(motion_history, md.score)
            r == analyze_multimodal_frame(history, md, pose, face)
        IN  /\ process(md, pose, face)
            /\ alert_count' <= MaxAlerts
            /\ ObserveRun(r.detection_type # None)
            /\ UNCHANGED <<env_vars, query_vars, component_vars>>

\* reset() between two frames, e.g. on camera reconnect; the scene may differ after
Reset ==
    /\ reset
    /\ motion_level' \in MotionLevels
    /\ alerts_in_run' = 0
    /\ since_run_alert' = 0
    /\ alerts_total' = alerts_total
    /\ since_trigger' = NotComputed
    /\ UNCHANGED <<frame_no, scenario, query_vars, component_vars>>

Next == ProcessFrame \/ Reset

Spec == Init /\ [][Next]_vars

(***************************************************************************)
(* SpecScenario: the end-to-end scenarios B and D on a fresh engine.       *)
(***************************************************************************)
\* scenario B: high motion with rhythmic tremor (rule 5) on every frame
FrameB == [motion |-> MotionData(70),
           pose |-> [is_rigid |-> FALSE, is_fallen |-> FALSE, is_slumping |-> FALSE,
                     tremor |-> 60],
           face |-> [head_shake_score |-> 0, facial_distortion |-> 0,
                     mouth_open_wide |-> FALSE]]

\* scenario D: rigid, mouth wide open, motion confidence 0.1 on every frame
FrameD == [motion |-> MotionData(10),
           pose |-> [is_rigid |-> TRUE, is_fallen |-> FALSE, is_slumping |-> FALSE,
                     tremor |-> 0],
           face |-> [head_shake_score |-> 0, facial_distortion |-> 0,
                     mouth_open_wide |-> TRUE]]

ScenarioInit ==
    /\ EngineInit(FPS_ASSUMED)
    /\ EnvInit
    /\ scenario \in {"B", "D"}
    /\ motion_level = IF scenario = "B" THEN 70 ELSE 10

Feed(f) ==
    LET history == DequeAppend(motion_history, f.motion.score)
        r == analyze_multimodal_frame(history, f.motion, f.pose, f.face)
    IN  /\ frame_no < MaxScenarioFrames
        /\ process(f.motion, f.pose, f.face)
        /\ alert_count' <= MaxAlerts
        /\ frame_no' = frame_no + 1
        /\ ObserveRun(r.detection_type # None)
        /\ UNCHANGED <<motion_level, scenario, query_vars, component_vars>>

ScenarioB == scenario = "B" /\ Feed(FrameB)

ScenarioD == scenario = "D" /\ Feed(FrameD)

ScenarioNext == ScenarioB \/ ScenarioD

SpecScenario == ScenarioInit /\ [][ScenarioNext]_vars

(***************************************************************************)
(* SpecDurations: _get_duration_frames on engines of every frame rate.     *)
(***************************************************************************)
DurationsInit ==
    /\ \E f \in 1..MaxFps : EngineInit(f)
    /\ EnvInit
    /\ motion_level = 10
    /\ scenario = "none"

QueryDuration ==
    /\ \E t \in DetectionTypes \cup {"UNKNOWN"} :
           durations' = (t :> _get_duration_frames(t)) @@ durations
    /\ UNCHANGED <<engine_vars, env_vars, observer_vars, frame, analysis, component_vars>>

DurationsNext == QueryDuration

SpecDurations == DurationsInit /\ [][DurationsNext]_vars

(***************************************************************************)
(* SpecClassify: analyze_multimodal_frame called on a motion history.      *)
(***************************************************************************)
\* direct calls made per behaviour
MaxClassifyCalls == 1
\* longest stretch of equal scores in an initial history
MaxStretch == 7

RECURSIVE Repeat(_, _)
Repeat(x, n) == IF n = 0 THEN << >> ELSE <<x>> \o Repeat(x, n - 1)

\* histories left by a stretch of high motion followed by a stretch of stillness
HistoryShapes ==
    { Repeat(70, a) \o Repeat(0, b) : a \in 0..MaxStretch, b \in 0..MaxStretch }

ClassifyInit ==
    /\ \E h \in HistoryShapes : EngineWith(FPS_ASSUMED, h)
    /\ EnvInit
    /\ motion_level = 10
    /\ scenario = "none"

\* analyze_multimodal_frame, lines 39-121
Analyze ==
    /\ frame_no < MaxClassifyCalls
    /\ \E score \in {0, 10, 35, 45, 70}, pose \in Poses, face \in Faces :
          LET md == MotionData(score)
              history == DequeAppend(motion_history, score)
          IN  /\ motion_history' = history
              /\ frame' = [motion |-> md, pose |-> pose, face |-> face]
              /\ analysis' = analyze_multimodal_frame(history, md, pose, face)
    /\ frame_no' = frame_no + 1
    /\ UNCHANGED <<fps, state, consecutive_frames, cooldown_timer, display_timer,
                   alert_count, last_trigger_reason, last_risk_score, threshold,
                   is_alert, debug_data, motion_level, scenario, observer_vars,
                   durations, component_vars>>

ClassifyNext == Analyze

SpecClassify == ClassifyInit /\ [][ClassifyNext]_vars

(***************************************************************************)
(* Properties.                                                             *)
(***************************************************************************)
\* frames during which a trigger suppresses further alerts
SuppressFrames == DisplayFrames + COOLDOWN_FRAMES

\* C1: a process call made while the display countdown or the cooldown
\* countdown is still running never returns alert=true, whatever the frame.
C1_NoAlertDuringCountdown ==
    [][(display_timer > 0 \/ cooldown_timer > 0) => ~is_alert']_vars

\* a strong frame (risk >= 0.85) was processed in the middle of the cooldown
C1_Witness ==
    /\ alert_count >= 1
    /\ display_timer = 0
    /\ cooldown_timer > 0
    /\ cooldown_timer < COOLDOWN_FRAMES
    /\ last_risk_score >= 85
    /\ ~is_alert

\* C2 as stated: a maximal run of consecutive classified frames yields
\* alert=true exactly once, however long the run continues; so never twice.
C2_ExactlyOnePerRun == alerts_in_run <= 1

\* C2 as amended: within a run of consecutive classified frames a further
\* alert=true comes only after the display and cooldown countdowns of the
\* previous one have run out, more than int(3*fps) + COOLDOWN_FRAMES frames on.
C2_RealertOnlyAfterCountdowns ==
    [][alerts_in_run >= 1 /\ alerts_in_run' > alerts_in_run
          => since_run_alert >= SuppressFrames]_vars

\* a run of classified frames that outlasted both countdowns triggered again
C2_Witness == is_alert /\ alerts_in_run = 2 /\ alert_count = 2

\* C3: consecutive_frames is never negative, and is exactly 0 in the state
\* right after a process call that returned alert=true.
C3_CounterNonNegative ==
    /\ consecutive_frames >= 0
    /\ is_alert => consecutive_frames = 0

C3_Witness == is_alert /\ consecutive_frames = 0 /\ alert_count = 1

\* C4: scenario D on a fresh engine: every frame up to the TONIC duration is
\* labelled TONIC, and alert=true is returned on the frame whose index is the
\* TONIC duration and on no earlier frame.
C4_TonicTriggersAtDuration ==
    (scenario = "D" /\ frame_no >= 1 /\ frame_no <= _get_duration_frames("TONIC"))
        => /\ debug_data.type = "TONIC"
           /\ is_alert <=> (frame_no = _get_duration_frames("TONIC"))

C4_Witness ==
    /\ scenario = "D"
    /\ frame_no = 12
    /\ is_alert
    /\ alert_count = 1
    /\ debug_data.type = "TONIC"

\* C5: scenario B on a fresh engine: DURATION_THRESHOLD frames of high motion
\* with tremor yield exactly one alert=true, and while the same input goes on
\* no further one is returned during the display and cooldown countdowns.
C5_ScenarioB ==
    /\ [](scenario = "B" /\ frame_no = DURATION_THRESHOLD => alert_count = 1)
    /\ [][(scenario = "B" /\ alerts_in_run >= 1 /\ since_run_alert < SuppressFrames)
             => ~is_alert']_vars

\* the input went on through both countdowns and one alert had been returned
C5_Witness ==
    /\ scenario = "B"
    /\ frame_no = DURATION_THRESHOLD + SuppressFrames
    /\ alert_count = 1
    /\ display_timer = 0
    /\ cooldown_timer = 0

\* C6: after a trigger the state is ALERT while the display countdown runs
\* and COOLDOWN while the cooldown countdown runs.
C6_StateCycle ==
    /\ display_timer > 0 => state = STATE_ALERT
    /\ (display_timer = 0 /\ cooldown_timer > 0) => state = STATE_COOLDOWN

(***************************************************************************)
(* The classification rules as a priority list.                            *)
(***************************************************************************)
\* whether rule k (numbered as in the source) matches frame f on history h
RuleMatches(k, h, f) ==
    LET score == f.motion.score
    IN  CASE k = 1 -> f.face.head_shake_score > 75 /\ f.face.facial_distortion > 60
          [] k = 2 -> f.pose.is_rigid /\ f.face.mouth_open_wide /\ score < 30
          [] k = 3 -> score < 20 /\ f.pose.is_rigid /\ f.pose.is_slumping
          [] k = 4 -> f.pose.is_fallen /\ _detect_motion_drop(h)
          [] k = 5 -> score > 60 /\ f.pose.tremor > 50
          [] k = 6 -> f.face.head_shake_score > 65 /\ score > 40
          [] k = 7 -> f.pose.is_fallen /\ score > 30
          [] k = 8 -> /\ score > 50 /\ f.pose.tremor < 10
                      /\ f.face.head_shake_score < 20 /\ ~f.pose.is_rigid

\* label and risk rule k gives (0 stands for "no rule matched")
RuleLabel(k) ==
    CASE k = 1 -> <<"CLONIC", 95>>
      [] k = 2 -> <<"TONIC", 90>>
      [] k = 3 -> <<"TONIC", 85>>
      [] k = 4 -> <<"ATONIC", 95>>
      [] k = 5 -> <<"CLONIC", 85>>
      [] k = 6 -> <<"POSSIBLE", 70>>
      [] k = 7 -> <<"FALL", 60>>
      [] k = 8 -> <<None, 10>>
      [] k = 0 -> <<None, 0>>

\* the spec's order: head-shake CLONIC, gasping TONIC, ATONIC drop attack,
\* general CLONIC, silent TONIC, POSSIBLE, FALL, normal-activity filter
SpecOrder == <<1, 2, 4, 5, 3, 6, 7, 8>>

\* the order of the if/elif chain of the source
SourceOrder == <<1, 2, 3, 4, 5, 6, 7, 8>>

\* the first rule of `order` that matches, 0 when none does
FirstMatch(order, h, f) ==
    LET hits == { i \in 1..Len(order) : RuleMatches(order[i], h, f) }
    IN  IF hits = {} THEN 0
        ELSE order[CHOOSE i \in hits : \A j \in hits : i <= j]

LabelledBy(order) ==
    frame # NoFrame =>
        <<analysis.detection_type, analysis.risk_score>>
            = RuleLabel(FirstMatch(order, motion_history, frame))

\* C7 as stated: the label and risk are those of the first matching rule in
\* the spec's priority order, so a fallen frame with a sudden motion drop
\* that is also rigid, slumping and low-motion is labelled ATONIC.
C7_SpecPriority == LabelledBy(SpecOrder)

\* C7 as amended: the label and risk are those of the first matching rule in
\* the order head-shake CLONIC, gasping TONIC, silent TONIC, ATONIC, general
\* CLONIC, POSSIBLE, FALL, filter; the frame above is labelled TONIC.
C7_SourcePriority == LabelledBy(SourceOrder)

\* the frame of the claim: fallen with a motion drop, rigid, slumping, still
C7_Witness ==
    /\ frame # NoFrame
    /\ RuleMatches(3, motion_history, frame)
    /\ RuleMatches(4, motion_history, frame)
    /\ ~RuleMatches(1, motion_history, frame)
    /\ ~RuleMatches(2, motion_history, frame)
    /\ analysis.detection_type = "TONIC"
    /\ analysis.risk_score = 85

\* C8: at every frame rate the required durations are ordered
\* ATONIC < FALL, TONIC, CLONIC < POSSIBLE.
C8_DurationOrder ==
    \A t \in DOMAIN durations \cap {"FALL", "TONIC", "CLONIC"} :
        /\ "ATONIC" \in DOMAIN durations => durations["ATONIC"] < durations[t]
        /\ "POSSIBLE" \in DOMAIN durations => durations[t] < durations["POSSIBLE"]

\* the whole table was read at 90 fps, where int(0.7 * fps) rounds down to 62
C8_Witness ==
    /\ fps = 90
    /\ DetectionTypes \subseteq DOMAIN durations
    /\ durations["POSSIBLE"] = 62
    /\ durations["ATONIC"] = 22

\* whether the last call was made on a classified frame, read off its telemetry
Classified == debug_data.type \notin {None, "SEIZURE"}

\* C9 as stated: outside display and cooldown every call on a classified
\* frame adds exactly 1 to the counter and every call on an unclassified
\* frame takes exactly 1 off it, but never below 0.
C9_CounterStep ==
    [][threshold' # NotComputed =>
          consecutive_frames' = IF Classified' THEN consecutive_frames + 1
                                ELSE Max(0, consecutive_frames - 1)]_vars

\* C9 as amended: the same, except that a call which returns alert=true
\* leaves the counter at 0.
C9_CounterStepUnlessTrigger ==
    [][threshold' # NotComputed =>
          consecutive_frames' = IF is_alert' THEN 0
                                ELSE IF Classified' THEN consecutive_frames + 1
                                ELSE Max(0, consecutive_frames - 1)]_vars

\* an unclassified frame has just taken the counter down to 3
C9_Witness ==
    /\ threshold # NotComputed
    /\ ~is_alert
    /\ debug_data.type = None
    /\ consecutive_frames = 3

\* C10: the threshold the engine applies to a frame is at most 0.85 and at
\* least the base threshold config.MOTION_THRESHOLD.
C10_ThresholdBounds ==
    threshold # NotComputed => (threshold >= MOTION_THRESHOLD /\ threshold <= 85)

\* keys of the telemetry map that process writes on every path
BaseTelemetryKeys == {"status", "risk", "counter", "type", "reason"}

\* C11: every telemetry map returned by process holds a status label, a risk
\* score, the counter, the classification label and reason, and two further
\* entries (the active threshold and the calibration flag); the map returned
\* with alert=true also holds the alert sequence number.
C11_TelemetryComplete ==
    debug_data # NoTelemetry =>
        /\ BaseTelemetryKeys \subseteq DOMAIN debug_data
        /\ \E kt, kc \in DOMAIN debug_data \ (BaseTelemetryKeys \cup {"alert_num"}) :
               kt # kc
        /\ is_alert => "alert_num" \in DOMAIN debug_data

(***************************************************************************)
(* SpecReplay: an engine that has run for a while is reset and fed some    *)
(* frames; then a new engine is constructed and fed the same frames.       *)
(***************************************************************************)
\* frames fed after the reset
MaxReplay == 10

\* a fall with residual motion (rule 7, or rule 4 after a motion drop)
FrameFall == [motion |-> MotionData(35),
              pose |-> [is_rigid |-> FALSE, is_fallen |-> TRUE, is_slumping |-> TRUE,
                        tremor |-> 0],
              face |-> [head_shake_score |-> 0, facial_distortion |-> 0,
                        mouth_open_wide |-> FALSE]]

\* nobody moving
FrameQuiet == [motion |-> MotionData(0),
               pose |-> [is_rigid |-> FALSE, is_fallen |-> FALSE, is_slumping |-> FALSE,
                         tremor |-> 0],
               face |-> [head_shake_score |-> 0, facial_distortion |-> 0,
                         mouth_open_wide |-> FALSE]]

ReplayFrames == {FrameFall, FrameQuiet}

ReplayInit == ScenarioInit

\* the engine runs on scenario B or D frames through counting, alert,
\* display and cooldown
Age == phase = "age" /\ (ScenarioB \/ ScenarioD)

\* what process would do with the next frame
Activity ==
    IF InDisplay THEN "display"
    ELSE IF InCooldown THEN "cooldown"
    ELSE IF consecutive_frames > 0 THEN "counting"
    ELSE "idle"

\* reset() between two frames
ResetNow ==
    /\ phase = "age"
    /\ reset
    /\ phase' = "reset_run"
    /\ reset_during' = Activity
    /\ frame_no' = 0
    /\ alerts_in_run' = 0
    /\ since_run_alert' = 0
    /\ alerts_total' = alerts_total
    /\ since_trigger' = NotComputed
    /\ UNCHANGED <<motion_level, scenario, query_vars, trace, reset_alerts,
                   fresh_alerts, tracker_vars, iou_vars, analyzer_vars, unit_vars>>

\* the reset engine processes one more frame
FeedReset ==
    /\ phase = "reset_run"
    /\ Len(trace) < MaxReplay
    /\ \E f \in ReplayFrames :
          /\ process(f.motion, f.pose, f.face)
          /\ trace' = Append(trace, f)
    /\ reset_alerts' = Append(reset_alerts, is_alert')
    /\ UNCHANGED <<env_vars, observer_vars, query_vars, phase, reset_during,
                   fresh_alerts, tracker_vars, iou_vars, analyzer_vars, unit_vars>>

\* DecisionEngine.__init__(fps) as the assignment that builds a new engine
__init__(f) ==
    /\ fps' = f
    /\ state' = STATE_IDLE
    /\ consecutive_frames' = 0
    /\ cooldown_timer' = 0
    /\ display_timer' = 0
    /\ alert_count' = 0
    /\ motion_history' = << >>
    /\ last_trigger_reason' = None
    /\ last_risk_score' = 0
    /\ threshold' = NotComputed
    /\ is_alert' = FALSE
    /\ debug_data' = NoTelemetry

\* DecisionEngine(fps=config.FPS_ASSUMED): a new engine replaces the old one
Construct ==
    /\ phase = "reset_run"
    /\ trace # << >>
    /\ __init__(FPS_ASSUMED)
    /\ phase' = "fresh_run"
    /\ UNCHANGED <<env_vars, observer_vars, query_vars, reset_during, trace,
                   reset_alerts, fresh_alerts, tracker_vars, iou_vars,
                   analyzer_vars, unit_vars>>

\* the new engine processes the next frame of the recorded ones
FeedFresh ==
    /\ phase = "fresh_run"
    /\ Len(fresh_alerts) < Len(trace)
    /\ LET f == trace[Len(fresh_alerts) + 1]
       IN  process(f.motion, f.pose, f.face)
    /\ fresh_alerts' = Append(fresh_alerts, is_alert')
    /\ UNCHANGED <<env_vars, observer_vars, query_vars, phase, reset_during,
                   trace, reset_alerts, tracker_vars, iou_vars, analyzer_vars, unit_vars>>

ReplayNext == Age \/ ResetNow \/ FeedReset \/ Construct \/ FeedFresh

SpecReplay == ReplayInit /\ [][ReplayNext]_vars

\* C12: reset() clears the counter, both timers and the motion history and
\* leaves the state IDLE, whatever the engine was doing; and the alert
\* results the reset engine then returns are those a freshly constructed
\* engine returns for the same frames.
C12_ResetLikeFresh ==
    /\ [][phase = "age" /\ phase' = "reset_run" =>
            /\ consecutive_frames' = 0
            /\ cooldown_timer' = 0
            /\ display_timer' = 0
            /\ motion_history' = << >>
            /\ state' = STATE_IDLE]_vars
    /\ [](fresh_alerts = SubSeq(reset_alerts, 1, Len(fresh_alerts)))

\* reset in the middle of the display countdown, then a replayed run of
\* frames that ends in an alert on both engines
C12_Witness ==
    /\ phase = "fresh_run"
    /\ reset_during = "display"
    /\ Len(trace) = MaxReplay
    /\ fresh_alerts = reset_alerts
    /\ \E i \in 1..Len(fresh_alerts) : fresh_alerts[i]

(***************************************************************************)
(* ForegroundIsolator: IoU and temporal stabilisation of the bounding box. *)
(* A float quotient of two integers is kept as the reduced fraction        *)
(* <<numerator, denominator>>, which preserves equality and order.         *)
(***************************************************************************)
\* coordinates 0..MaxCoord and sides 1..MaxSide of the boxes explored
MaxCoord == 2
MaxSide == 3
\* lost_frames is unbounded in the source; no-detection calls stop here
MaxLostFrames == 18
\* frames fed in scenario C
MaxTrackFrames == 40

RECURSIVE GCD(_, _)
GCD(a, b) == IF b = 0 THEN a ELSE GCD(b, a % b)

\* the float n / d for integers n >= 0 and d > 0
Quotient(n, d) == <<n \div GCD(n, d), d \div GCD(n, d)>>

\* the float 0.0
Zero == <<0, 1>>
\* the float 1.0
One == <<1, 1>>

\* q >= c / 100 for a quotient q and a literal of c hundredths
AtLeast(q, c) == q[1] * 100 >= c * q[2]

\* the union divided out is that of the two areas without the intersection taken off
_calculate_iou_no_union(b1, b2) ==
    LET xi1 == Max(b1[1], b2[1])
        yi1 == Max(b1[2], b2[2])
        xi2 == Min(b1[1] + b1[3], b2[1] + b2[3])
        yi2 == Min(b1[2] + b1[4], b2[2] + b2[4])
        inter_area == (xi2 - xi1) * (yi2 - yi1)
        total == b1[3] * b1[4] + b2[3] * b2[4]
    IN  IF xi2 <= xi1 \/ yi2 <= yi1 THEN Zero
        ELSE IF total > 0 THEN Quotient(inter_area, total) ELSE Zero

\* the intersection is divided by the area of the first box alone
_calculate_iou_over_first(b1, b2) ==
    LET xi1 == Max(b1[1], b2[1])
        yi1 == Max(b1[2], b2[2])
        xi2 == Min(b1[1] + b1[3], b2[1] + b2[3])
        yi2 == Min(b1[2] + b1[4], b2[2] + b2[4])
        inter_area == (xi2 - xi1) * (yi2 - yi1)
        area1 == b1[3] * b1[4]
    IN  IF xi2 <= xi1 \/ yi2 <= yi1 THEN Zero
        ELSE IF area1 > 0 THEN Quotient(inter_area, area1) ELSE Zero

\* _calculate_iou(box1, box2), boxes being (x, y, w, h)
_calculate_iou(b1, b2) ==
    LET xi1 == Max(b1[1], b2[1])
        yi1 == Max(b1[2], b2[2])
        xi2 == Min(b1[1] + b1[3], b2[1] + b2[3])
        yi2 == Min(b1[2] + b1[4], b2[2] + b2[4])
        inter_area == (xi2 - xi1) * (yi2 - yi1)
        area1 == b1[3] * b1[4]
        area2 == b2[3] * b2[4]
        union_area == area1 + area2 - inter_area
    IN  IF xi2 <= xi1 \/ yi2 <= yi1 THEN Zero
        ELSE IF union_area > 0 THEN Quotient(inter_area, union_area) ELSE Zero

\* width times height of a box
Area(b) == b[3] * b[4]

\* an area test that no pair of boxes passes
SimilarArea_never(prev, curr) == FALSE

\* area_ratio > 0.5, the ratio being min(areas) / max(areas) (lines 189-193)
SimilarArea(prev, curr) ==
    2 * Min(Area(prev), Area(curr)) > Max(Area(prev), Area(curr))

\* an accepted box that leaves the lost-frame counter as it was
Accept_keeps_lost_frames(b) ==
    /\ prev_bbox' = b
    /\ stable_bbox' = b
    /\ lost_frames' = lost_frames
    /\ roi' = b
    /\ raised' = None

\* an accepted box that becomes the previous box but not the stable one
Accept_keeps_stable(b) ==
    /\ prev_bbox' = b
    /\ stable_bbox' = stable_bbox
    /\ lost_frames' = 0
    /\ roi' = b
    /\ raised' = None

\* lines 172-175, 182-185, 195-198 and 204-207: the box is accepted
Accept(b) ==
    /\ prev_bbox' = b
    /\ stable_bbox' = b
    /\ lost_frames' = 0
    /\ roi' = b
    /\ raised' = None

\* giving up the target but leaving prev_bbox in place
TargetLost_keeps_prev ==
    /\ lost_frames' = lost_frames + 1
    /\ prev_bbox' = prev_bbox
    /\ stable_bbox' = NoBox
    /\ roi' = NoBox
    /\ raised' = None

\* lines 161-166: the target is given up
TargetLost ==
    /\ lost_frames' = lost_frames + 1
    /\ prev_bbox' = NoBox
    /\ stable_bbox' = NoBox
    /\ roi' = NoBox
    /\ raised' = None

\* holding on to the counter and the boxes but returning nothing
Hold_returns_null ==
    /\ lost_frames' = lost_frames + 1
    /\ roi' = NoBox
    /\ raised' = None
    /\ UNCHANGED <<prev_bbox, stable_bbox>>

\* lines 161, 168 and 201, 208: the last stable box is returned once more
Hold ==
    /\ lost_frames' = lost_frames + 1
    /\ roi' = stable_bbox
    /\ raised' = None
    /\ UNCHANGED <<prev_bbox, stable_bbox>>

\* line 191 with both areas 0: the division raises and the call returns
\* nothing
ZeroDivision ==
    /\ raised' = "ZeroDivisionError"
    /\ UNCHANGED <<prev_bbox, lost_frames, stable_bbox, roi>>

\* _stabilize_tracking(current_bbox)
_stabilize_tracking(b) ==
    IF b = NoBox
      THEN IF lost_frames + 1 > FG_LOST_FRAMES_MAX THEN TargetLost ELSE Hold
    ELSE IF prev_bbox = NoBox THEN Accept(b)
    ELSE IF AtLeast(_calculate_iou(b, prev_bbox), FG_STABILITY_THRESHOLD) THEN Accept(b)
    ELSE IF Max(Area(prev_bbox), Area(b)) = 0 THEN ZeroDivision
    ELSE IF SimilarArea(prev_bbox, b) THEN Accept(b)
    ELSE IF lost_frames + 1 > FG_LOST_FRAMES_MAX THEN Accept(b)
    ELSE Hold

(***************************************************************************)
(* SpecTracker: _stabilize_tracking under arbitrary detections.            *)
(***************************************************************************)
\* the tracked person
BoxA == <<0, 0, 4, 4>>
\* the same person after a small move: IoU with BoxA is 12/20
BoxNear == <<1, 0, 4, 4>>
\* a small box elsewhere: IoU with BoxA is 0, area ratio 4/16
BoxFar == <<6, 6, 2, 2>>
\* a box of similar size elsewhere: IoU with BoxA is 0, area ratio 12/16
BoxSame == <<6, 0, 4, 3>>

Candidates == {BoxA, BoxNear, BoxFar, BoxSame}

TrackerInit ==
    /\ EngineInit(FPS_ASSUMED)
    /\ motion_level = 10
    /\ scenario = "none"
    /\ EnvInit

\* get_foreground_roi, line 230, on a frame with a largest contour
Detect ==
    \E b \in Candidates :
        /\ _stabilize_tracking(b)
        /\ current_bbox' = b
        /\ none_run' = 0
        /\ run_after_accept' = (prev_bbox' = b)
        /\ UNCHANGED <<box_a, box_b, engine_vars, env_vars, observer_vars,
                       query_vars, replay_vars, iou_vars, analyzer_vars, unit_vars>>

\* get_foreground_roi, line 230, on a frame without any valid contour
NoDetection ==
    /\ lost_frames < MaxLostFrames
    /\ _stabilize_tracking(NoBox)
    /\ current_bbox' = NoBox
    /\ none_run' = none_run + 1
    /\ UNCHANGED <<run_after_accept, box_a, box_b, engine_vars, env_vars,
                   observer_vars, query_vars, replay_vars, iou_vars, analyzer_vars, unit_vars>>

TrackerNext == Detect \/ NoDetection

SpecTracker == TrackerInit /\ [][TrackerNext]_vars

\* C13 as stated: whenever a stable box exists, a single frame with no
\* detection (one that follows a frame with a detection) makes
\* _stabilize_tracking return that stable box.
C13_OcclusionTolerance ==
    [][(stable_bbox # NoBox /\ current_bbox # NoBox /\ current_bbox' = NoBox)
          => roi' = stable_bbox]_vars

\* C13 as amended: whenever a stable box exists and fewer than
\* FG_LOST_FRAMES_MAX frames have gone by without an accepted box, a frame
\* with no detection makes _stabilize_tracking return that stable box and
\* keep it.
C13_OcclusionToleranceUnderMax ==
    [][(stable_bbox # NoBox /\ lost_frames < FG_LOST_FRAMES_MAX
        /\ current_bbox' = NoBox)
          => (roi' = stable_bbox /\ stable_bbox' = stable_bbox
              /\ prev_bbox' = prev_bbox)]_vars

\* a single empty frame after fourteen rejected boxes still returned BoxA
C13_Witness ==
    /\ current_bbox = NoBox
    /\ none_run = 1
    /\ lost_frames = FG_LOST_FRAMES_MAX
    /\ roi = BoxA
    /\ stable_bbox = BoxA

\* C14: during the first FG_LOST_FRAMES_MAX no-detection frames that follow
\* an accepted box the stable box is returned; the next one returns null
\* and clears prev_bbox and stable_bbox; and a tracker without a previous
\* box answers like a new one: null for no detection, and a detection is
\* accepted at once as the new stable box.
C14_LostAfterMaxPlusOne ==
    /\ []((run_after_accept /\ none_run \in 1..FG_LOST_FRAMES_MAX)
            => (roi # NoBox /\ roi = stable_bbox))
    /\ []((run_after_accept /\ none_run = FG_LOST_FRAMES_MAX + 1)
            => (roi = NoBox /\ prev_bbox = NoBox /\ stable_bbox = NoBox))
    /\ [][prev_bbox = NoBox
            => /\ stable_bbox = NoBox
               /\ roi' = current_bbox'
               /\ stable_bbox' = current_bbox'
               /\ prev_bbox' = current_bbox'
               /\ (current_bbox' # NoBox => lost_frames' = 0)]_vars

\* the sixteenth empty frame after an accepted box has just cleared the tracker
C14_Witness ==
    /\ run_after_accept
    /\ none_run = FG_LOST_FRAMES_MAX + 1
    /\ lost_frames = FG_LOST_FRAMES_MAX + 1
    /\ roi = NoBox
    /\ prev_bbox = NoBox

\* a detection that _stabilize_tracking does not take for the tracked person:
\* IoU with the previous box below FG_STABILITY_THRESHOLD (0.2 = 1/5) and the
\* smaller area at most half of the larger
Inconsistent(b, prev) ==
    /\ 5 * _calculate_iou(b, prev)[1] < _calculate_iou(b, prev)[2]
    /\ 2 * Min(b[3] * b[4], prev[3] * prev[4]) <= Max(b[3] * b[4], prev[3] * prev[4])

\* C29: a detection inconsistent with the stable box is answered with the old
\* stable box, the lost-frame counter going up by one, as long as the counter
\* stays at most FG_LOST_FRAMES_MAX; the detection that would take it past
\* that is switched to and zeroes the counter; a detection with IoU at or above
\* the threshold, or with areas within 50% of each other, is accepted at once
\* and zeroes the counter.
C29_HoldThenSwitch ==
    [][(current_bbox' # NoBox /\ prev_bbox # NoBox) =>
          IF Inconsistent(current_bbox', prev_bbox)
            THEN IF lost_frames + 1 <= FG_LOST_FRAMES_MAX
                   THEN /\ roi' = prev_bbox
                        /\ roi' = stable_bbox
                        /\ lost_frames' = lost_frames + 1
                        /\ prev_bbox' = prev_bbox
                        /\ stable_bbox' = stable_bbox
                   ELSE /\ roi' = current_bbox'
                        /\ prev_bbox' = current_bbox'
                        /\ stable_bbox' = current_bbox'
                        /\ lost_frames' = 0
            ELSE /\ roi' = current_bbox'
                 /\ prev_bbox' = current_bbox'
                 /\ stable_bbox' = current_bbox'
                 /\ lost_frames' = 0]_vars

\* the inconsistent box has just been detected with the counter at its
\* maximum and the old box is still the one returned
C29_Witness ==
    /\ lost_frames = FG_LOST_FRAMES_MAX
    /\ none_run = 0
    /\ current_bbox = BoxFar
    /\ roi = BoxA
    /\ prev_bbox = BoxA

(***************************************************************************)
(* SpecScenarioC: a new tracker accepts box A; then A and B alternate      *)
(* frame by frame, or B is detected on every frame.                        *)
(***************************************************************************)
\* valid boxes: non-negative x and y, width and height above 0
Boxes ==
    {<<x, y, w, h>> : x \in 0..MaxCoord, y \in 0..MaxCoord,
                      w \in 1..MaxSide, h \in 1..MaxSide}

\* IoU(a, b) below FG_STABILITY_THRESHOLD and area ratio below 0.5
Competing(a, b) ==
    /\ ~AtLeast(_calculate_iou(a, b), FG_STABILITY_THRESHOLD)
    /\ 2 * Min(Area(a), Area(b)) < Max(Area(a), Area(b))

ScenarioCInit ==
    /\ EngineInit(FPS_ASSUMED)
    /\ motion_level = 10
    /\ scenario \in {"alternate", "persist"}
    /\ EnvInit

\* one frame of the scenario whose largest contour has bounding box b
Track(b) ==
    /\ frame_no < MaxTrackFrames
    /\ _stabilize_tracking(b)
    /\ current_bbox' = b
    /\ none_run' = 0
    /\ run_after_accept' = (prev_bbox' = b)
    /\ frame_no' = frame_no + 1
    /\ UNCHANGED <<motion_level, scenario, engine_vars, observer_vars, query_vars,
                   replay_vars, iou_vars, analyzer_vars, unit_vars>>

\* frame 1: the original box A is detected alone
StartC ==
    /\ frame_no = 0
    /\ \E a \in Boxes, b \in Boxes :
          /\ Competing(a, b)
          /\ box_a' = a
          /\ box_b' = b
          /\ Track(a)

\* B on the even frames, A on the odd ones
AlternateC ==
    /\ scenario = "alternate"
    /\ frame_no > 0
    /\ Track(IF frame_no % 2 = 1 THEN box_b ELSE box_a)
    /\ UNCHANGED <<box_a, box_b>>

\* B on every frame after the first
PersistC ==
    /\ scenario = "persist"
    /\ frame_no > 0
    /\ Track(box_b)
    /\ UNCHANGED <<box_a, box_b>>

ScenarioCNext == StartC \/ AlternateC \/ PersistC

SpecScenarioC == ScenarioCInit /\ [][ScenarioCNext]_vars

\* C15 as stated: with A and B alternating the tracker emits A on the first
\* FG_LOST_FRAMES_MAX + 1 frames and has switched its output to B once B
\* has been detected FG_LOST_FRAMES_MAX + 1 times.
C15_ScenarioC ==
    scenario = "alternate" =>
        /\ frame_no \in 1..(FG_LOST_FRAMES_MAX + 1) => roi = box_a
        /\ (frame_no > 2 * (FG_LOST_FRAMES_MAX + 1) /\ current_bbox = box_b)
              => roi = box_b

\* C15 as amended: with A and B alternating the tracker emits A on every
\* frame and never switches, because each detection of A is accepted and
\* zeroes lost_frames; with B detected on every frame after the first it
\* emits A for FG_LOST_FRAMES_MAX frames of B and emits B from the next on.
C15_SwitchOnlyWhenPersistent ==
    /\ (scenario = "alternate" /\ frame_no > 0)
          => (roi = box_a /\ stable_bbox = box_a /\ lost_frames <= 1)
    /\ (scenario = "persist" /\ frame_no \in 1..(FG_LOST_FRAMES_MAX + 1))
          => (roi = box_a /\ lost_frames = frame_no - 1)
    /\ (scenario = "persist" /\ frame_no > FG_LOST_FRAMES_MAX + 1)
          => (roi = box_b /\ stable_bbox = box_b /\ lost_frames = 0)

\* B has been detected on twenty frames of the alternation and A is still emitted
C15_Witness ==
    /\ scenario = "alternate"
    /\ frame_no = MaxTrackFrames
    /\ current_bbox = box_b
    /\ roi = box_a
    /\ lost_frames = 1

(***************************************************************************)
(* SpecIou: _calculate_iou called on pairs of valid boxes.                 *)
(***************************************************************************)
IouInit ==
    /\ EngineInit(FPS_ASSUMED)
    /\ motion_level = 10
    /\ scenario = "none"
    /\ EnvInit

\* self._calculate_iou(box1, box2), called once on some pair of valid boxes
CalculateIou ==
    /\ iou = NoIou
    /\ \E b1 \in Boxes, b2 \in Boxes :
          /\ box1' = b1
          /\ box2' = b2
          /\ iou' = _calculate_iou(b1, b2)
    /\ UNCHANGED <<engine_vars, env_vars, observer_vars, query_vars, replay_vars,
                   tracker_vars, analyzer_vars, unit_vars>>

IouNext == CalculateIou

SpecIou == IouInit /\ [][IouNext]_vars

\* C16: _calculate_iou(box, box) is 1.0 for every valid box.
C16_IouIdentity ==
    (iou # NoIou /\ box1 = box2) => iou = One

\* the IoU of the largest box at the far corner with itself
C16_Witness ==
    /\ box1 = <<MaxCoord, MaxCoord, MaxSide, MaxSide>>
    /\ box2 = box1
    /\ iou = One

\* the interiors of two boxes share no point
Disjoint(b1, b2) ==
    \/ b1[1] + b1[3] <= b2[1]
    \/ b2[1] + b2[3] <= b1[1]
    \/ b1[2] + b1[4] <= b2[2]
    \/ b2[2] + b2[4] <= b1[2]

\* C17: _calculate_iou is exactly 0.0 for two valid boxes whose interiors
\* do not overlap, touching ones included, and gives the same value with
\* its arguments exchanged.
C17_IouDisjointSymmetric ==
    iou # NoIou =>
        /\ Disjoint(box1, box2) => iou = Zero
        /\ iou = _calculate_iou(box2, box1)

\* two boxes that touch in one corner only
C17_Witness ==
    /\ box1 = <<0, 0, 1, 1>>
    /\ box2 = <<1, 1, 2, 1>>
    /\ iou = Zero

(***************************************************************************)
(* MotionAnalyzer: the motion buffer, the noise gate and the smoothing.    *)
(* Magnitudes are in hundredths.  The optical flow (lines 70-86) is the    *)
(* environment's: it hands get_motion_score a normalized magnitude.  The   *)
(* filtering and the FFT of _analyze_spectrum (lines 206-261) are not      *)
(* computed: their outcome is any score between 0 and 1, so timestamp_     *)
(* buffer, which only they read, is not kept.                              *)
(***************************************************************************)
\* an append that never evicts
BufferAppend_unbounded(buffer, x) == Append(buffer, x)

\* deque(maxlen=config.BUFFER_SIZE).append
BufferAppend(buffer, x) ==
    IF Len(buffer) < BUFFER_SIZE THEN Append(buffer, x) ELSE Append(Tail(buffer), x)

\* how many samples of the buffer equal v
Count(buffer, v) == Cardinality({i \in DOMAIN buffer : buffer[i] = v})

\* the sum of the samples raised to the power k (1 or 2), value by value
RECURSIVE PowerSum(_, _, _)
PowerSum(buffer, values, k) ==
    IF values = {} THEN 0
    ELSE LET v == CHOOSE x \in values : TRUE
         IN  (IF k = 1 THEN v ELSE v * v) * Count(buffer, v)
                 + PowerSum(buffer, values \ {v}, k)

\* np.std(data) < 0.01 for data = buffer - mean(buffer): with samples in
\* hundredths the variance (N * sum(x^2) - sum(x)^2) / N^2 is below 1
StdBelowGate(buffer) ==
    LET n == Len(buffer)
        values == {buffer[i] : i \in DOMAIN buffer}
    IN  n * PowerSum(buffer, values, 2)
            - PowerSum(buffer, values, 1) * PowerSum(buffer, values, 1) < n * n

\* the spectral score without the standard-deviation gate of lines 202-204
_analyze_spectrum_no_std_gate(buffer, spectral) ==
    IF Len(buffer) < BUFFER_SIZE THEN 0 ELSE spectral

\* _analyze_spectrum; `spectral` is the outcome of lines 206-261
_analyze_spectrum(buffer, spectral) ==
    IF Len(buffer) < BUFFER_SIZE THEN 0
    ELSE IF StdBelowGate(buffer) THEN 0
    ELSE spectral

\* the sign of smoothed_score * 0.9
Decayed(score) == IF score = ZeroScore THEN ZeroScore ELSE PositiveScore

\* the sign of ema_alpha * raw + (1 - ema_alpha) * score
Smoothed(raw, score) ==
    IF raw = 0 /\ score = ZeroScore THEN ZeroScore ELSE PositiveScore

\* lines 54-55 and 65-68: nothing is measured and 0.0 is returned
ReturnZero ==
    /\ normalized_motion' = NotComputed
    /\ pushed' = NotComputed
    /\ raw_score' = NotComputed
    /\ factor' = NotComputed
    /\ confidence' = ZeroScore
    /\ UNCHANGED <<motion_buffer, smoothed_score>>

\* a noise gate that pushes the magnitude it measured
NoiseGate_pushes_magnitude(shape, magnitude) ==
    /\ motion_buffer' = BufferAppend(motion_buffer, magnitude)
    /\ prev_gray' = shape
    /\ smoothed_score' = Decayed(smoothed_score)
    /\ normalized_motion' = magnitude
    /\ pushed' = magnitude
    /\ raw_score' = NotComputed
    /\ factor' = 90
    /\ confidence' = smoothed_score'

\* lines 93-99: the noise gate
NoiseGate(shape, magnitude) ==
    /\ motion_buffer' = BufferAppend(motion_buffer, 0)
    /\ prev_gray' = shape
    /\ smoothed_score' = Decayed(smoothed_score)
    /\ normalized_motion' = magnitude
    /\ pushed' = 0
    /\ raw_score' = NotComputed
    /\ factor' = 90
    /\ confidence' = smoothed_score'

\* lines 101-113: real motion
RealMotion(shape, magnitude, spectral) ==
    LET buffer == BufferAppend(motion_buffer, magnitude)
        raw == _analyze_spectrum(buffer, spectral)
    IN  /\ motion_buffer' = buffer
        /\ prev_gray' = shape
        /\ smoothed_score' = Smoothed(raw, smoothed_score)
        /\ normalized_motion' = magnitude
        /\ pushed' = magnitude
        /\ raw_score' = raw
        /\ factor' = 100 - MOTION_EMA_ALPHA
        /\ confidence' = smoothed_score'

\* get_motion_score(frame) for a frame of the given shape in which the
\* optical flow measures the given magnitude
get_motion_score(shape, magnitude, spectral) ==
    IF shape = "empty" THEN ReturnZero /\ UNCHANGED prev_gray
    ELSE IF prev_gray = None \/ prev_gray # shape
      THEN ReturnZero /\ prev_gray' = shape
    ELSE IF magnitude < MOTION_NOISE_FLOOR THEN NoiseGate(shape, magnitude)
    ELSE RealMotion(shape, magnitude, spectral)

\* MotionAnalyzer.reset(), lines 263-268
analyzer_reset ==
    /\ prev_gray' = None
    /\ motion_buffer' = << >>
    /\ smoothed_score' = ZeroScore
    /\ normalized_motion' = NotComputed
    /\ pushed' = NotComputed
    /\ raw_score' = NotComputed
    /\ factor' = NotComputed
    /\ confidence' = ZeroScore

(***************************************************************************)
(* SpecAnalyzer: get_motion_score and reset under a scene that is still,   *)
(* moves steadily or shakes, and changes between the three.                *)
(***************************************************************************)
Signals == {"still", "steady", "shaking"}

\* shapes of the analysis frame (main.py lines 80-85) and a frame of no width
Shapes == {"full", "roi", "empty"}

\* outcomes of the spectral analysis of a full buffer that passes the gate
RawScores == {0, 60, 100}

\* the normalized magnitude of the next frame: 0.5 when still, 1.5 when
\* steady, 1.0 and 2.0 in turn when shaking
Magnitude ==
    CASE signal = "still" -> 50
      [] signal = "steady" -> 150
      [] OTHER -> IF motion_buffer # << >> /\ motion_buffer[Len(motion_buffer)] = 100
                  THEN 200 ELSE 100

\* every sample equals the first
Uniform(buffer) == \A i \in DOMAIN buffer : buffer[i] = buffer[1]

\* the samples of a shaking scene: 1.0 and 2.0 in turn
Alternating(buffer) ==
    /\ \A i \in DOMAIN buffer : buffer[i] \in {100, 200}
    /\ \A i \in 2..Len(buffer) : buffer[i] # buffer[i - 1]

\* the buffer holds nothing, or only samples of the current kind of scene
Settled ==
    \/ motion_buffer = << >>
    \/ Len(motion_buffer) = BUFFER_SIZE
          /\ (Uniform(motion_buffer) \/ Alternating(motion_buffer))

AnalyzerInit ==
    /\ EngineInit(FPS_ASSUMED)
    /\ motion_level = 10
    /\ scenario = "none"
    /\ EnvInit

\* main.py line 87
MotionFrame ==
    /\ \E shape \in Shapes, spectral \in RawScores :
          get_motion_score(shape, Magnitude, spectral)
    /\ UNCHANGED <<signal, engine_vars, env_vars, observer_vars, query_vars,
                   replay_vars, tracker_vars, iou_vars, unit_vars>>

\* the scene changes
ChangeSignal ==
    /\ Settled
    /\ signal' \in Signals \ {signal}
    /\ UNCHANGED <<prev_gray, motion_buffer, smoothed_score, normalized_motion,
                   pushed, raw_score, factor, confidence, engine_vars, env_vars,
                   observer_vars, query_vars, replay_vars, tracker_vars, iou_vars, unit_vars>>

\* motion_engine.reset()
AnalyzerReset ==
    /\ analyzer_reset
    /\ UNCHANGED <<signal, engine_vars, env_vars, observer_vars, query_vars,
                   replay_vars, tracker_vars, iou_vars, unit_vars>>

AnalyzerNext == MotionFrame \/ ChangeSignal \/ AnalyzerReset

SpecAnalyzer == AnalyzerInit /\ [][AnalyzerNext]_vars

\* the step is a get_motion_score call that appended a sample
Pushed == pushed' # NotComputed /\ signal' = signal

\* C18: the motion buffer never holds more than BUFFER_SIZE samples; a push
\* puts the new sample behind the others, which keep their order, and when
\* the buffer was full the oldest sample, and only it, is gone; nothing
\* else changes the buffer but reset.
C18_BufferBounded ==
    /\ [](Len(motion_buffer) <= BUFFER_SIZE)
    /\ [][Pushed =>
            motion_buffer' =
                Append(IF Len(motion_buffer) = BUFFER_SIZE THEN Tail(motion_buffer)
                       ELSE motion_buffer, pushed')]_vars
    /\ [][(~Pushed /\ motion_buffer' # motion_buffer) => motion_buffer' = << >>]_vars

\* a full buffer whose oldest sample is the second one of a shaking scene:
\* the first has been evicted
C18_Witness ==
    /\ Len(motion_buffer) = BUFFER_SIZE
    /\ motion_buffer[1] = 200
    /\ pushed = motion_buffer[BUFFER_SIZE]

ConstantPastFill ==
    /\ Pushed
    /\ normalized_motion' >= MOTION_NOISE_FLOOR
    /\ Len(motion_buffer') = BUFFER_SIZE
    /\ Uniform(motion_buffer')

\* C20 as stated: with a constant magnitude sustained past buffer fill
\* get_motion_score returns confidence 0.
C20_ConstantInputZero ==
    [][ConstantPastFill => confidence' = ZeroScore]_vars

\* C20 as amended: with a constant magnitude sustained past buffer fill
\* the spectral score is 0 and get_motion_score returns the smoothed score
\* scaled by 1 - MOTION_EMA_ALPHA: 0 if it was 0, a positive value otherwise.
C20_ConstantInputDecays ==
    [][ConstantPastFill
          => /\ raw_score' = 0
             /\ factor' = 100 - MOTION_EMA_ALPHA
             /\ confidence' = smoothed_score
             /\ smoothed_score' = confidence']_vars

\* a steady scene has filled the buffer and a positive confidence is returned
C20_Witness ==
    /\ Len(motion_buffer) = BUFFER_SIZE
    /\ Uniform(motion_buffer)
    /\ pushed = 150
    /\ raw_score = 0
    /\ confidence = PositiveScore

(***************************************************************************)
(* SpecScore: get_motion_score and reset with the value of the score.      *)
(* The smoothed score is kept in hundredths, rounded up to a multiple of   *)
(* ScoreStep: an upper bound of the float of the source, and positive      *)
(* whenever that float is.                                                 *)
(* The spectral confidence is computed from the two band energies, which   *)
(* the FFT of lines 206-234 hands over as the environment's choice.        *)
(***************************************************************************)
ENERGY_NOISE_FLOOR == 15

\* the scaled confidence handed on as it is
Clip_none(x) == x

\* np.clip(x, 0.0, 1.0)
Clip(x) == Max(0, Min(100, x))

\* lines 241-261 of _analyze_spectrum for the energy of the seizure band and
\* that of the whole band, which includes it
SpectralConfidence(energy_seizure, energy_total) ==
    IF energy_seizure < ENERGY_NOISE_FLOOR THEN 0
    ELSE IF energy_total = 0 THEN 0
    ELSE LET ratio == (100 * energy_seizure) \div energy_total
             energy_confidence ==
                 Min(100, (100 * energy_seizure) \div (ENERGY_NOISE_FLOOR * 3))
             combined_confidence == (ratio * 70 + energy_confidence * 30) \div 100
         IN  Clip((combined_confidence * 150) \div 100)

\* energies of the seizure band and of the whole band in one spectrum
BandEnergies == { <<10, 10>>, <<15, 135>>, <<60, 60>> }

\* resolution of the score value kept, in hundredths
ScoreStep == 5

\* a product of two values in hundredths, as hundredths rounded up to the
\* next multiple of ScoreStep
RoundUp(x) == ((x + ScoreStep * 100 - 1) \div (ScoreStep * 100)) * ScoreStep

\* self.smoothed_score * 0.9
ScoreDecay(v) == RoundUp(v * 90)

\* self.ema_alpha * raw_score + (1 - self.ema_alpha) * self.smoothed_score
ScoreEma(raw, v) == RoundUp(MOTION_EMA_ALPHA * raw + (100 - MOTION_EMA_ALPHA) * v)

\* the values get_motion_score leaves in smoothed_score and returns, on the
\* path the call took: lines 55 and 68, lines 98-99, lines 111-113
ScoreValue ==
    /\ smoothed_value' = CASE factor' = NotComputed -> smoothed_value
                           [] factor' = 90 -> ScoreDecay(smoothed_value)
                           [] OTHER -> ScoreEma(raw_score', smoothed_value)
    /\ returned' = IF factor' = NotComputed THEN 0
                   ELSE IF factor' = 90 THEN Max(0, smoothed_value')
                   ELSE smoothed_value'

ScoreInit == AnalyzerInit

\* main.py line 87
ScoreFrame ==
    /\ \E shape \in Shapes, e \in BandEnergies :
          get_motion_score(shape, Magnitude, SpectralConfidence(e[1], e[2]))
    /\ ScoreValue
    /\ UNCHANGED <<signal, engine_vars, env_vars, observer_vars, query_vars,
                   replay_vars, tracker_vars, iou_vars, pose_vars, symmetry_vars,
                   alert_vars, late_vars>>

\* motion_engine.reset()
ScoreReset ==
    /\ analyzer_reset
    /\ smoothed_value' = 0
    /\ returned' = 0
    /\ UNCHANGED <<signal, engine_vars, env_vars, observer_vars, query_vars,
                   replay_vars, tracker_vars, iou_vars, pose_vars, symmetry_vars,
                   alert_vars, late_vars>>

ScoreNext == ScoreFrame \/ ChangeSignal \/ ScoreReset

SpecScore == ScoreInit /\ [][ScoreNext]_vars

\* C21: every value get_motion_score returns lies in [0, 1], on the
\* zero-size, first-frame, noise-gate and spectral paths and after any
\* sequence of calls and resets; so does the smoothed score it keeps.
C21_ScoreInUnitInterval ==
    /\ returned >= 0
    /\ returned <= 100
    /\ smoothed_value >= 0
    /\ smoothed_value <= 100

\* a shaking scene with all its energy in the seizure band has driven the
\* returned score up to 1.0
C21_Witness ==
    /\ returned = 100
    /\ raw_score = 100
    /\ factor = 100 - MOTION_EMA_ALPHA
    /\ Len(motion_buffer) = BUFFER_SIZE

(***************************************************************************)
(* PoseVelocityAnalyzer and the nose history of FaceAnalyzer.  Landmarks   *)
(* move along x only: a position is in hundredths of the frame width and   *)
(* the magnitude of a displacement is its absolute value.  The y history   *)
(* of the nose, handled like the x history, is not kept.                   *)
(***************************************************************************)
\* PoseVelocityAnalyzer(buffer_size=30)
pose_buffer_size == 30
\* FaceAnalyzer(buffer_size=10)
face_buffer_size == 10

\* frames fed to the pose and face analyzers of one subject
MaxPoseFrames == 5
\* frames of three landmarks fed before the symmetry is asked for
MaxSymmetryFrames == 3

\* a landmark whose visibility is below 0.5, in place of its position
Hidden == -1
\* a frame without face landmarks, in place of the position of the nose
NoFace == -2
\* a frame without pose landmarks, in place of the landmarks of the target
NoPose == EmptyDict

\* deque(maxlen=n).append
BoundedAppend(h, x, n) ==
    IF Len(h) < n THEN Append(h, x) ELSE Append(Tail(h), x)

Abs(x) == IF x < 0 THEN 0 - x ELSE x

\* the sum of d[name] over the names given
RECURSIVE SumOver(_, _)
SumOver(d, names) ==
    IF names = {} THEN 0
    ELSE LET name == CHOOSE x \in names : TRUE
         IN  d[name] + SumOver(d, names \ {name})

\* landmarks that pass the visibility test of line 47
Visible(landmarks) == {name \in LANDMARKS : landmarks[name] # Hidden}

\* PoseVelocityAnalyzer.update(pose_landmarks), lines 37-69, for the landmarks
\* of the first pose
update(landmarks) ==
    LET measured == Visible(landmarks) \cap DOMAIN prev_positions
        result == [name \in measured |->
                      Abs(landmarks[name] - prev_positions[name])]
    IN  /\ velocities' = result
        /\ update_result' = "dict"
        /\ velocity_history' =
              [name \in LANDMARKS |->
                  IF name \in measured
                    THEN BoundedAppend(velocity_history[name], result[name],
                                       pose_buffer_size)
                    ELSE velocity_history[name]]
        /\ prev_positions' =
              [name \in DOMAIN prev_positions \cup Visible(landmarks) |->
                  IF name \in Visible(landmarks) THEN landmarks[name]
                  ELSE prev_positions[name]]
        /\ magnitude_history' =
              IF measured # {}
                THEN BoundedAppend(magnitude_history,
                                   Quotient(SumOver(result, measured),
                                            Cardinality(measured)),
                                   pose_buffer_size)
                ELSE magnitude_history
        /\ stale_measured' = measured \cap stale
        /\ stale' = stale \ Visible(landmarks)

\* main.py lines 101-104 on a frame without pose landmarks: update is not
\* called, and nothing else touches the analyzer
NoUpdate ==
    /\ update_result' = "not called"
    /\ velocities' = EmptyDict
    /\ stale' = DOMAIN prev_positions
    /\ stale_measured' = {}
    /\ UNCHANGED <<prev_positions, velocity_history, magnitude_history>>

\* FaceAnalyzer.analyze, lines 92-105, as far as the nose history goes
analyze(nose) ==
    IF nose = NoFace THEN UNCHANGED nose_x_history
    ELSE nose_x_history' = BoundedAppend(nose_x_history, nose, face_buffer_size)

\* main.py lines 93-114 on one frame
PoseFaceFrame(pose, nose) ==
    /\ IF pose = NoPose THEN NoUpdate ELSE update(pose)
    /\ analyze(nose)
    /\ pose_seen' = (pose # NoPose)
    /\ face_seen' = (nose # NoFace)
    /\ frame_no' = frame_no + 1
    /\ UNCHANGED <<motion_level, scenario, engine_vars, observer_vars, query_vars,
                   replay_vars, tracker_vars, iou_vars, analyzer_vars, score_vars,
                   alert_vars, late_vars>>

(***************************************************************************)
(* SpecSubject: one subject whose left wrist and nose are tracked, lost    *)
(* and found again.                                                        *)
(***************************************************************************)
\* poses in which the left wrist is at 0.4 or 0.5 of the width or hidden
WristPoses ==
    { [name \in LANDMARKS |-> IF name = "left_wrist" THEN x ELSE Hidden] :
        x \in {Hidden, 40, 50} }

SubjectInit ==
    /\ EngineInit(FPS_ASSUMED)
    /\ motion_level = 10
    /\ scenario = "none"
    /\ EnvInit

SubjectFrame ==
    /\ frame_no < MaxPoseFrames
    /\ \E pose \in WristPoses \cup {NoPose}, nose \in {NoFace, 50} :
          PoseFaceFrame(pose, nose)
    /\ UNCHANGED symmetry_vars

SubjectNext == SubjectFrame

SpecSubject == SubjectInit /\ [][SubjectNext]_vars

\* C22: after a frame without pose landmarks the previous positions and the
\* velocity histories are empty, after a frame without face landmarks the
\* nose history is empty, and no displacement is ever measured against a
\* position recorded before a loss.
C22_BuffersClearedOnLoss ==
    /\ (frame_no > 0 /\ ~pose_seen)
          => /\ DOMAIN prev_positions = {}
             /\ \A name \in LANDMARKS : velocity_history[name] = << >>
    /\ (frame_no > 0 /\ ~face_seen) => nose_x_history = << >>
    /\ stale_measured = {}

(***************************************************************************)
(* SpecSymmetry: a few frames of the three landmarks, then the symmetry    *)
(* of the two sides is asked for.                                          *)
(***************************************************************************)
\* the mean of a non-empty history of magnitudes
Mean(h) == Quotient(SeqSum(h), Len(h))

\* the sum of two quotients
QAdd(a, b) == Quotient(a[1] * b[2] + b[1] * a[2], a[2] * b[2])

\* a < b for two quotients
QLess(a, b) == a[1] * b[2] < b[1] * a[2]

\* the sum of the mean activities of the names given
RECURSIVE SumOfMeans(_)
SumOfMeans(names) ==
    IF names = {} THEN Zero
    ELSE LET name == CHOOSE x \in names : TRUE
         IN  QAdd(Mean(velocity_history[name]), SumOfMeans(names \ {name}))

\* _calculate_group_activity(group)
_calculate_group_activity(group) ==
    LET activities == {name \in group : Len(velocity_history[name]) > 0}
        total == SumOfMeans(activities)
    IN  IF activities = {} THEN Zero
        ELSE Quotient(total[1], total[2] * Cardinality(activities))

\* the ratio taken the other way round: max over min
_calculate_symmetry_inverted(left, right) ==
    LET max_score == IF QLess(left, right) THEN right ELSE left
        min_score == IF QLess(right, left) THEN right ELSE left
    IN  IF left = Zero /\ right = Zero THEN One
        ELSE IF min_score[1] > 0
          THEN Quotient(max_score[1] * min_score[2], max_score[2] * min_score[1])
        ELSE One

\* _calculate_symmetry, lines 96-102, for the two scores of lines 93-94
_calculate_symmetry(left, right) ==
    LET max_score == IF QLess(left, right) THEN right ELSE left
        min_score == IF QLess(right, left) THEN right ELSE left
    IN  IF left = Zero /\ right = Zero THEN One
        ELSE IF max_score[1] > 0
          THEN Quotient(min_score[1] * max_score[2], min_score[2] * max_score[1])
        ELSE One

\* poses of the three landmarks, each at 0.4 or 0.5 of the width or hidden
Poses3 == [LANDMARKS -> {Hidden, 40, 50}]

SymmetryInit == SubjectInit

SymmetryFrame ==
    /\ frame_no < MaxSymmetryFrames
    /\ symmetry = NoSymmetry
    /\ \E pose \in Poses3 \cup {NoPose} : PoseFaceFrame(pose, NoFace)
    /\ UNCHANGED symmetry_vars

\* pose_velocity._calculate_symmetry(), asked once
CalculateSymmetry ==
    /\ symmetry = NoSymmetry
    /\ left_score' = _calculate_group_activity(LEFT_SIDE)
    /\ right_score' = _calculate_group_activity(RIGHT_SIDE)
    /\ symmetry' = _calculate_symmetry(left_score', right_score')
    /\ UNCHANGED <<engine_vars, env_vars, observer_vars, query_vars, replay_vars,
                   tracker_vars, iou_vars, analyzer_vars, score_vars, pose_vars,
                   alert_vars, late_vars>>

SymmetryNext == SymmetryFrame \/ CalculateSymmetry

SpecSymmetry == SymmetryInit /\ [][SymmetryNext]_vars

\* C27: the symmetry score is 1.0 when both sides are motionless, and else
\* the smaller of the two sides' average activities divided by the larger;
\* it lies in [0, 1].
C27_SymmetryRatio ==
    symmetry # NoSymmetry =>
        LET larger == IF QLess(left_score, right_score) THEN right_score
                      ELSE left_score
            smaller == IF QLess(left_score, right_score) THEN left_score
                       ELSE right_score
        IN  /\ (left_score[1] = 0 /\ right_score[1] = 0) => symmetry = One
            /\ larger[1] > 0 =>
                  symmetry[1] * larger[1] * smaller[2]
                      = smaller[1] * symmetry[2] * larger[2]
            /\ symmetry[1] >= 0
            /\ symmetry[2] > 0
            /\ symmetry[1] <= symmetry[2]

\* the left side moved on one frame of two and its elbow on none, the right
\* side on both: the two activities are 0.025 and 0.1 and the symmetry 1/4
C27_Witness ==
    /\ left_score = <<5, 2>>
    /\ right_score = <<10, 1>>
    /\ symmetry = <<1, 4>>

(***************************************************************************)
(* SpecDegenerate: _stabilize_tracking called on boxes some of which have  *)
(* no width or no height.                                                  *)
(***************************************************************************)
\* boxes (x, y, w, h) at two places, of width 0 to 2 and height 0 or 1
DegenerateBoxes ==
    {<<x, 0, w, h>> : x \in {0, 4}, w \in 0..2, h \in 0..1}

DegenerateInit == TrackerInit

\* self._stabilize_tracking(current_bbox) on any of these boxes; a call that
\* raises ends the frame loop of main.py, which catches nothing
StabilizeAny ==
    /\ raised = None
    /\ \E b \in DegenerateBoxes :
          /\ _stabilize_tracking(b)
          /\ current_bbox' = b
          /\ none_run' = 0
          /\ run_after_accept' = (prev_bbox' = b)
    /\ UNCHANGED <<box_a, box_b, engine_vars, env_vars, observer_vars, query_vars,
                   replay_vars, iou_vars, analyzer_vars, unit_vars>>

DegenerateNext == StabilizeAny

SpecDegenerate == DegenerateInit /\ [][DegenerateNext]_vars

\* C23: no call of _stabilize_tracking raises on a zero denominator, whatever
\* the two boxes whose IoU and area ratio it computes, boxes of zero area
\* included.
C23_RatiosGuarded == raised = None

(***************************************************************************)
(* The alert counter and the two countdowns (checked under Spec).          *)
(***************************************************************************)
\* C26: alert_count goes up by exactly one on each process call that returns
\* alert=true and is left alone by every other process call and by reset();
\* the alert_num of the trigger telemetry is the number of alert=true results
\* returned since the engine was constructed.
C26_AlertCount ==
    /\ [](alert_count = alerts_total)
    /\ [][IF is_alert'
            THEN /\ alert_count' = alert_count + 1
                 /\ "alert_num" \in DOMAIN debug_data'
                 /\ debug_data'.alert_num = alerts_total'
            ELSE alert_count' = alert_count]_vars

\* a second alert=true, the first of its run of classified frames
C26_Witness ==
    /\ is_alert
    /\ alerts_in_run = 1
    /\ alerts_total = 2
    /\ debug_data.alert_num = 2

\* C28: for the int(3*fps) + COOLDOWN_FRAMES process calls that follow a
\* trigger (no reset in between) the display countdown runs first, the
\* cooldown countdown standing still until the display countdown is at 0;
\* each of these calls returns alert=false and leaves the counter at 0, and
\* after the last of them both countdowns are at 0, so that the next call is
\* the first that can change the counter.
C28_DisplayThenCooldown ==
    /\ since_trigger \in 0..SuppressFrames
          => /\ display_timer = Max(0, DisplayFrames - since_trigger)
             /\ cooldown_timer = COOLDOWN_FRAMES - Max(0, since_trigger - DisplayFrames)
             /\ consecutive_frames = 0
    /\ since_trigger \in 1..SuppressFrames
          => /\ ~is_alert
             /\ debug_data.counter = 0

\* the call after the two countdowns raised the counter
C28_Witness ==
    /\ since_trigger = SuppressFrames + 1
    /\ consecutive_frames = 1
    /\ ~is_alert

(***************************************************************************)
(* SpecNormal: frames of normal activity, alone on a fresh engine            *)
(* (scenario "N") or mixed with frames that classify (scenario "BN").      *)
(***************************************************************************)
\* frames fed in scenario "N"
MaxNormalFrames == 8
\* frames fed in scenario "BN"
MaxMixedFrames == 24

\* head shaking with elevated motion and nothing else: rule 6, POSSIBLE
FramePossible == [motion |-> MotionData(70),
                  pose |-> [is_rigid |-> FALSE, is_fallen |-> FALSE,
                            is_slumping |-> FALSE, tremor |-> 0],
                  face |-> [head_shake_score |-> 70, facial_distortion |-> 0,
                            mouth_open_wide |-> FALSE]]

\* the condition of the false-positive filter (line 115) on a person who has
\* not fallen
IsNormalActivity(f) ==
    /\ f.motion.score > 50
    /\ f.pose.tremor < 10
    /\ f.face.head_shake_score < 20
    /\ ~f.pose.is_rigid
    /\ ~f.pose.is_fallen

\* frames of that kind with one of the given motion scores
NormalFrames(scores) ==
    { [motion |-> MotionData(score),
       pose |-> [is_rigid |-> FALSE, is_fallen |-> FALSE, is_slumping |-> slump,
                 tremor |-> tremor],
       face |-> [head_shake_score |-> shake, facial_distortion |-> distortion,
                 mouth_open_wide |-> mouth]] :
        score \in scores, slump \in BOOLEAN, tremor \in {0, 5}, shake \in {0, 15},
        distortion \in {0, 70}, mouth \in BOOLEAN }

NormalInit ==
    /\ EngineInit(FPS_ASSUMED)
    /\ EnvInit
    /\ scenario \in {"N", "BN"}
    /\ motion_level = 70

\* main.py line 117 on frame f, the classification of f kept beside it
FeedFrame(f) ==
    LET history == DequeAppend(motion_history, f.motion.score)
        r == analyze_multimodal_frame(history, f.motion, f.pose, f.face)
    IN  /\ process(f.motion, f.pose, f.face)
        /\ alert_count' <= MaxAlerts
        /\ frame_no' = frame_no + 1
        /\ ObserveRun(r.detection_type # None)
        /\ frame' = f
        /\ analysis' = r
        /\ UNCHANGED <<motion_level, scenario, durations, component_vars>>

\* a frame of normal activity
NormalFrame ==
    \/ /\ scenario = "N"
       /\ frame_no < MaxNormalFrames
       /\ \E f \in NormalFrames({55, 80}) : FeedFrame(f)
    \/ /\ scenario = "BN"
       /\ frame_no < MaxMixedFrames
       /\ \E f \in NormalFrames({motion_level}) : FeedFrame(f)

\* a frame that classifies as CLONIC or as POSSIBLE
ClassifiedFrame ==
    /\ scenario = "BN"
    /\ frame_no < MaxMixedFrames
    /\ \E f \in {FrameB, FramePossible} : FeedFrame(f)

NormalNext == NormalFrame \/ ClassifiedFrame

SpecNormal == NormalInit /\ [][NormalNext]_vars

\* C30: a frame with high motion, no tremor, no head shake, not rigid and not
\* fallen is classified as normal activity (no detection type, risk 0.1) and
\* its process call never raises consecutive_frames; an engine that has been
\* fed nothing but such frames has never returned alert=true and its counter
\* is still 0.
C30_NormalActivityFiltered ==
    /\ [][(frame_no' = frame_no + 1 /\ IsNormalActivity(frame'))
             => /\ analysis'.detection_type = None
                /\ analysis'.risk_score = 10
                /\ last_risk_score' = 10
                /\ consecutive_frames' <= consecutive_frames]_vars
    /\ [](scenario = "N"
             => ~is_alert /\ consecutive_frames = 0 /\ alert_count = 0)

\* fourteen classified frames, then a frame of normal activity that took the
\* counter from 14 to 13
C30_Witness ==
    /\ scenario = "BN"
    /\ frame_no = 15
    /\ IsNormalActivity(frame)
    /\ analysis.risk_score = 10
    /\ consecutive_frames = 13
    /\ alert_count = 0

(***************************************************************************)
(* SpecAlert: AlertManager with its audio, email and location services.    *)
(***************************************************************************)
\* seconds the clock advances in a behaviour
MaxElapsed == 60

\* AlertManager.cooldown_seconds, as main.py line 39 passes it
cooldown_seconds == ALERT_COOLDOWN_SECONDS

\* a cooldown test that always lets the call through
can_trigger_always == TRUE

\* AlertManager.can_trigger
can_trigger == (clock - _last_alert_time) >= cooldown_seconds

\* LocationService.get_location on the cache <<location, time>>, the HTTP
\* request succeeding or failing as `outcome` says; the result is the cache
\* afterwards and the number of requests made
get_location(cache, outcome) ==
    IF cache[1] # None /\ (clock - cache[2]) < _cache_duration
      THEN <<cache[1], cache[2], 0>>
    ELSE IF outcome = "ok" THEN <<"location", clock, 1>>
    ELSE <<cache[1], cache[2], 1>>

\* AlertManager.trigger_alert(detection_data); the dict is only read
trigger_alert(outcome1, outcome2) ==
    IF ~can_trigger
      THEN /\ triggered' = "False"
           /\ audio_started' = FALSE
           /\ email_started' = FALSE
           /\ foreground_requests' = 0
           /\ UNCHANGED <<_last_alert_time, _alert_count, _is_playing,
                          _cached_location, _cache_time>>
      ELSE LET location == get_location(<<_cached_location, _cache_time>>, outcome1)
               location_str == get_location(<<location[1], location[2]>>, outcome2)
           IN  /\ _last_alert_time' = clock
               /\ _alert_count' = _alert_count + 1
               /\ _cached_location' = location_str[1]
               /\ _cache_time' = location_str[2]
               /\ foreground_requests' = location[3] + location_str[3]
               /\ _is_playing' = TRUE
               /\ audio_started' = ~_is_playing
               /\ email_started' = (emergency_contact_email # "")
               /\ triggered' = "True"

AlertInit ==
    /\ EngineInit(FPS_ASSUMED)
    /\ motion_level = 10
    /\ scenario = "none"
    /\ ComponentInit
    /\ velocity_history = [name \in LANDMARKS |-> << >>]
    /\ emergency_contact_email \in {"", "contact@example.org"}

\* time passes between two calls
Tick ==
    /\ clock + TickSeconds <= StartTime + MaxElapsed
    /\ clock' = clock + TickSeconds
    /\ op' = "time"
    /\ UNCHANGED <<_last_alert_time, _alert_count, _is_playing, _cached_location,
                   _cache_time, emergency_contact_email, triggered, audio_started,
                   email_started, foreground_requests, last_true_time, true_gap,
                   reset_since, gap_reset>>
    /\ UNCHANGED <<engine_vars, env_vars, observer_vars, query_vars, replay_vars,
                   tracker_vars, iou_vars, analyzer_vars, score_vars, pose_vars,
                   symmetry_vars, late_vars>>

\* main.py line 125
TriggerAlert ==
    /\ \E outcome1 \in {"ok", "error"}, outcome2 \in {"ok", "error"} :
          trigger_alert(outcome1, outcome2)
    /\ op' = "trigger_alert"
    /\ IF triggered' = "True"
         THEN /\ last_true_time' = clock
              /\ true_gap' = IF last_true_time = NotComputed THEN NotComputed
                             ELSE clock - last_true_time
              /\ gap_reset' = reset_since
              /\ reset_since' = FALSE
         ELSE UNCHANGED <<last_true_time, true_gap, gap_reset, reset_since>>
    /\ UNCHANGED <<clock, emergency_contact_email>>
    /\ UNCHANGED <<engine_vars, env_vars, observer_vars, query_vars, replay_vars,
                   tracker_vars, iou_vars, analyzer_vars, score_vars, pose_vars,
                   symmetry_vars, late_vars>>

\* AudioAlert._async_play_worker comes to its end
AudioDone ==
    /\ _is_playing
    /\ _is_playing' = FALSE
    /\ op' = "_async_play_worker"
    /\ UNCHANGED <<clock, _last_alert_time, _alert_count, _cached_location,
                   _cache_time, emergency_contact_email, triggered, audio_started,
                   email_started, foreground_requests, last_true_time, true_gap,
                   reset_since, gap_reset>>
    /\ UNCHANGED <<engine_vars, env_vars, observer_vars, query_vars, replay_vars,
                   tracker_vars, iou_vars, analyzer_vars, score_vars, pose_vars,
                   symmetry_vars, late_vars>>

\* AlertManager.reset()
AlertReset ==
    /\ _last_alert_time' = 0
    /\ _alert_count' = 0
    /\ _is_playing' = FALSE
    /\ op' = "reset"
    /\ reset_since' = TRUE
    /\ UNCHANGED <<clock, _cached_location, _cache_time, emergency_contact_email,
                   triggered, audio_started, email_started, foreground_requests,
                   last_true_time, true_gap, gap_reset>>
    /\ UNCHANGED <<engine_vars, env_vars, observer_vars, query_vars, replay_vars,
                   tracker_vars, iou_vars, analyzer_vars, score_vars, pose_vars,
                   symmetry_vars, late_vars>>

AlertNext == Tick \/ TriggerAlert \/ AudioDone \/ AlertReset

SpecAlert == AlertInit /\ [][AlertNext]_vars

\* the call just made returned False and left the manager and its services
\* as they were
Refused ==
    /\ triggered' = "False"
    /\ _last_alert_time' = _last_alert_time
    /\ _alert_count' = _alert_count
    /\ _is_playing' = _is_playing
    /\ ~audio_started'
    /\ ~email_started'

\* C24 as stated: a trigger_alert call made less than cooldown_seconds after
\* the last call that returned True returns False, changes neither the
\* last-alert time nor the alert count and starts neither audio nor email;
\* any two calls that return True are at least cooldown_seconds apart.
C24_OncePerCooldown ==
    /\ [][(op' = "trigger_alert" /\ last_true_time # NotComputed
             /\ clock - last_true_time < cooldown_seconds) => Refused]_vars
    /\ [](true_gap # NotComputed => true_gap >= cooldown_seconds)

\* C24 as amended: the same, as long as reset() has not been called since the
\* last call that returned True; reset() puts the last-alert time back to 0
\* and the next call triggers whatever the time.
C24_OncePerCooldownUnlessReset ==
    /\ [][(op' = "trigger_alert" /\ last_true_time # NotComputed /\ ~reset_since
             /\ clock - last_true_time < cooldown_seconds) => Refused]_vars
    /\ []((true_gap # NotComputed /\ ~gap_reset) => true_gap >= cooldown_seconds)

\* a call made 20 seconds after a successful one was refused
C24_Witness ==
    /\ op = "trigger_alert"
    /\ triggered = "False"
    /\ last_true_time # NotComputed
    /\ clock - last_true_time = 20
    /\ ~reset_since
    /\ _alert_count = 1

\* C25: trigger_alert returns to the frame loop without having waited for
\* audio playback, SMTP or any network request: no call makes an HTTP request
\* in the caller's thread.
C25_NoForegroundWait == foreground_requests = 0

(***************************************************************************)
(* The head-shake rule and what makes a call trigger.                      *)
(***************************************************************************)
\* C31: a frame with violent head shaking and facial distortion but a motion
\* score of 0 is not classified CLONIC.
C31_HeadShakeNeedsMotion ==
    (frame # NoFrame /\ frame.face.head_shake_score > 75
        /\ frame.face.facial_distortion > 60 /\ frame.motion.score = 0)
      => analysis.detection_type # "CLONIC"

\* C32: process returns alert=true only on a frame that is itself positive,
\* its risk score reaching the threshold of its own detection type; a frame
\* without detection type never triggers.
C32_AlertOnlyOnPositiveFrame ==
    is_alert => /\ last_risk_score >= threshold
                /\ debug_data.type # "SEIZURE"

(***************************************************************************)
(* State, counter and countdowns of the engine (checked under Spec).       *)
(***************************************************************************)
\* C34: IDLE goes with counter 0 and both countdowns at 0; ANALYZING with a
\* counter above 0 and both countdowns at 0; while a countdown runs the
\* counter is 0 and the state is neither IDLE nor ANALYZING; no countdown is
\* ever negative.
C34_StateInvariants ==
    /\ state = STATE_IDLE
          => consecutive_frames = 0 /\ display_timer = 0 /\ cooldown_timer = 0
    /\ state = STATE_ANALYZING
          => consecutive_frames > 0 /\ display_timer = 0 /\ cooldown_timer = 0
    /\ (display_timer > 0 \/ cooldown_timer > 0)
          => consecutive_frames = 0 /\ state \notin {STATE_IDLE, STATE_ANALYZING}
    /\ display_timer >= 0
    /\ cooldown_timer >= 0

\* after an alert and its two countdowns a frame below its threshold has
\* taken the state back to IDLE
C34_Witness ==
    /\ state = STATE_IDLE
    /\ alert_count = 1
    /\ since_trigger = SuppressFrames + 2
    /\ motion_history # << >>
    /\ debug_data.counter = 0

\* C35: a process call made while a countdown is running takes one off the
\* running countdown, appends the motion score to the history and stores the
\* risk score; counter, state, alert count, last trigger reason and the
\* other countdown stay as they were.
C35_CountdownFrameEffect ==
    [][((display_timer > 0 \/ cooldown_timer > 0) /\ since_trigger' # NotComputed)
          => /\ IF display_timer > 0
                  THEN /\ display_timer' = display_timer - 1
                       /\ cooldown_timer' = cooldown_timer
                  ELSE /\ cooldown_timer' = cooldown_timer - 1
                       /\ display_timer' = display_timer
             /\ motion_history' = DequeAppend(motion_history, motion_level)
             /\ last_risk_score' = debug_data'.risk
             /\ consecutive_frames' = consecutive_frames
             /\ state' = state
             /\ alert_count' = alert_count
             /\ last_trigger_reason' = last_trigger_reason]_vars

\* a frame of risk 0.95 was processed in the middle of the cooldown
C35_Witness ==
    /\ display_timer = 0
    /\ cooldown_timer = 100
    /\ last_risk_score = 95
    /\ state = STATE_ALERT
    /\ since_trigger = DisplayFrames + 50

\* C36: after every _stabilize_tracking call stable_bbox equals prev_bbox and
\* the value returned equals stable_bbox; the box returned is the detection
\* of the frame or the box returned on the frame before; null is returned
\* only when no stable box is held.
C36_StableBoxInvariants ==
    /\ [](stable_bbox = prev_bbox /\ roi = stable_bbox)
    /\ [](roi = NoBox => stable_bbox = NoBox)
    /\ [][roi' = current_bbox' \/ roi' = roi]_vars

\* an inconsistent detection was answered with the box of the frame before
C36_Witness ==
    /\ current_bbox = BoxFar
    /\ roi = BoxNear
    /\ stable_bbox = BoxNear
    /\ prev_bbox = BoxNear
    /\ lost_frames = 3

(***************************************************************************)
(* SpecCredit: frames of different sub-types fed to one engine, the frames *)
(* classified as each sub-type counted beside the engine's one counter.    *)
(***************************************************************************)
\* frames fed
MaxCreditFrames == 10

CreditFrames == {FramePossible, FrameFall, FrameQuiet}

CreditInit ==
    /\ EngineInit(FPS_ASSUMED)
    /\ EnvInit
    /\ scenario = "none"
    /\ motion_level = 70

\* main.py line 117 on one of these frames
CreditFrame ==
    /\ frame_no < MaxCreditFrames
    /\ \E f \in CreditFrames :
          LET history == DequeAppend(motion_history, f.motion.score)
              r == analyze_multimodal_frame(history, f.motion, f.pose, f.face)
              since == IF is_alert THEN [t \in SeizureTypes |-> 0] ELSE frames_as
          IN  /\ process(f.motion, f.pose, f.face)
              /\ alert_count' <= MaxAlerts
              /\ frame_no' = frame_no + 1
              /\ ObserveRun(r.detection_type # None)
              /\ frame' = f
              /\ analysis' = r
              /\ frames_as' = IF r.detection_type \in SeizureTypes
                                THEN [since EXCEPT ![r.detection_type] = @ + 1]
                                ELSE since
    /\ UNCHANGED <<motion_level, scenario, durations, replay_vars, tracker_vars,
                   iou_vars, analyzer_vars, score_vars, pose_vars, symmetry_vars,
                   alert_vars, audio_vars, person_vars>>

CreditNext == CreditFrame

SpecCredit == CreditInit /\ [][CreditNext]_vars

\* C33: when process returns alert=true labelled with sub-type T, at least
\* duration(T) frames classified as T have been processed since the last
\* trigger or reset.
C33_OwnDurationPerType ==
    (is_alert /\ debug_data.type \in SeizureTypes)
        => frames_as[debug_data.type] >= _get_duration_frames(debug_data.type)

(***************************************************************************)
(* SpecDispatch: the frame loop of main.py, the engine's result handed to  *)
(* the AlertManager, frames paced at FPS_ASSUMED frames a second.          *)
(***************************************************************************)
DispatchInit ==
    /\ EngineInit(FPS_ASSUMED)
    /\ EnvInit
    /\ scenario = "B"
    /\ motion_level = 70

\* main.py lines 117-125 and 158: process, trigger_alert if it said so, then
\* the wait for the next frame; `clock` is the time the next frame is handled
DispatchFrame ==
    /\ frame_no < MaxScenarioFrames
    /\ process(FrameB.motion, FrameB.pose, FrameB.face)
    /\ alert_count' <= MaxAlerts
    /\ frame_no' = frame_no + 1
    /\ ObserveRun(TRUE)
    /\ IF is_alert'
         THEN /\ \E outcome1 \in {"ok", "error"}, outcome2 \in {"ok", "error"} :
                    trigger_alert(outcome1, outcome2)
              /\ op' = "trigger_alert"
         ELSE /\ triggered' = "not called"
              /\ UNCHANGED <<_last_alert_time, _alert_count, _is_playing,
                             _cached_location, _cache_time, op, audio_started,
                             email_started, foreground_requests>>
    /\ clock' = StartTime + (frame_no' \div FPS_ASSUMED)
    /\ UNCHANGED <<emergency_contact_email, last_true_time, true_gap, reset_since,
                   gap_reset>>
    /\ UNCHANGED <<motion_level, scenario, query_vars, replay_vars, tracker_vars,
                   iou_vars, analyzer_vars, score_vars, pose_vars, symmetry_vars,
                   late_vars>>

DispatchNext == DispatchFrame

SpecDispatch == DispatchInit /\ [][DispatchNext]_vars

\* C37: on every frame for which process returns alert=true the
\* trigger_alert call made for it returns True.
C37_EveryAlertDispatched == is_alert => triggered = "True"

(***************************************************************************)
(* SpecAudio: AudioAlert, its caller and its playback worker threads.      *)
(***************************************************************************)
\* worker threads started in a behaviour
MaxWorkers == 5

AudioInit ==
    /\ EngineInit(FPS_ASSUMED)
    /\ EnvInit
    /\ scenario = "none"
    /\ motion_level = 10

\* AudioAlert.play_async
play_async ==
    IF _is_playing
      THEN UNCHANGED <<_is_playing, _stop_flag, _play_thread, started, alive>>
      ELSE /\ _stop_flag' = FALSE
           /\ _is_playing' = TRUE
           /\ started' = started + 1
           /\ _play_thread' = started + 1
           /\ alive' = alive \cup {started + 1}

\* AudioAlert.stop; the join, which waits a second at most, ends because the
\* worker has ended ("joined") or because the second is over ("timeout")
stop(join) ==
    /\ _stop_flag' = TRUE
    /\ alive' = IF _play_thread \in alive /\ join = "joined"
                  THEN alive \ {_play_thread} ELSE alive
    /\ _is_playing' = FALSE
    /\ UNCHANGED <<_play_thread, started>>

\* AudioAlert._async_play_worker of thread w leaves play() and ends
_async_play_worker(w) ==
    /\ alive' = alive \ {w}
    /\ _is_playing' = FALSE
    /\ UNCHANGED <<_stop_flag, _play_thread, started>>

\* the rest of the AlertManager, which these calls leave alone
AudioFrame ==
    /\ UNCHANGED <<clock, _last_alert_time, _alert_count, _cached_location,
                   _cache_time, emergency_contact_email, triggered, audio_started,
                   email_started, foreground_requests, last_true_time, true_gap,
                   reset_since, gap_reset>>
    /\ UNCHANGED <<engine_vars, env_vars, observer_vars, query_vars, replay_vars,
                   tracker_vars, iou_vars, analyzer_vars, score_vars, pose_vars,
                   symmetry_vars, credit_vars, person_vars>>

PlayAsync ==
    /\ started < MaxWorkers
    /\ play_async
    /\ op' = "play_async"
    /\ AudioFrame

Stop ==
    /\ \E join \in {"joined", "timeout"} : stop(join)
    /\ op' = "stop"
    /\ AudioFrame

WorkerDone ==
    /\ \E w \in alive : _async_play_worker(w)
    /\ op' = "_async_play_worker"
    /\ AudioFrame

AudioNext == PlayAsync \/ Stop \/ WorkerDone

SpecAudio == AudioInit /\ [][AudioNext]_vars

\* C38: at most one playback worker of an AudioAlert runs at a time, and
\* is_playing is true whenever one is running.
C38_SingleWorker ==
    /\ Cardinality(alive) <= 1
    /\ alive # {} => _is_playing

(***************************************************************************)
(* SpecPersons: PoseAnalyzer._match_persons, with the Person.update that   *)
(* analyze makes for every id the generator yields.                        *)
(***************************************************************************)
\* seconds of wall clock a behaviour covers
MaxPersonTime == 7
\* most poses the landmarker returns for one frame
num_poses == 3

\* pixel distance threshold of a match
min_dist == 100
\* seconds without an update after which a person is removed
stale_seconds == 2

\* seconds between two frames: at the staleness limit and beyond it
FrameGaps == {stale_seconds, stale_seconds + 1}

\* a detection: the hip centre (cx, cy) the matching uses and the centre of
\* the bounding box of all landmarks, which Person.update stores as centroid;
\* the second is at the threshold from the first and within it of its own
\* stored centroid
DetectionSet ==
    {[hip |-> <<0, 0>>, centroid |-> <<0, 0>>],
     [hip |-> <<100, 0>>, centroid |-> <<60, 0>>],
     [hip |-> <<300, 0>>, centroid |-> <<300, 0>>]}

DetectionLists ==
    UNION {[1..n -> DetectionSet] : n \in 1..num_poses}

\* square of the Euclidean distance the loop takes the root of
Dist2(centroid, hip) ==
    (centroid[1] - hip[1]) * (centroid[1] - hip[1])
        + (centroid[2] - hip[2]) * (centroid[2] - hip[2])

\* a matcher that also offers the persons already matched in this frame
Unmatched_all(existing_ids, active_ids) == existing_ids

\* the persons the inner loop looks at: "if pid in active_ids: continue"
Unmatched(existing_ids, active_ids) ==
    {pid \in existing_ids : \A i \in DOMAIN active_ids : active_ids[i] # pid}

\* the persons nearer than the threshold to the hip centre
Near(hip, candidates, ppl) ==
    {pid \in candidates : Dist2(ppl[pid].centroid, hip) < min_dist * min_dist}

\* the inner loop: the nearest of them, the first in dictionary order (ids
\* are inserted in increasing order) among equally near ones
Nearest(hip, near, ppl) ==
    CHOOSE pid \in near :
        \A q \in near :
            \/ Dist2(ppl[pid].centroid, hip) < Dist2(ppl[q].centroid, hip)
            \/ /\ Dist2(ppl[pid].centroid, hip) = Dist2(ppl[q].centroid, hip)
               /\ pid <= q

\* Person(matched_id) where it is new, then Person.update
Updated(ppl, matched_id, det, now) ==
    [pid \in DOMAIN ppl \cup {matched_id} |->
        IF pid = matched_id
          THEN [centroid |-> det.centroid, last_seen |-> now]
          ELSE ppl[pid]]

\* the loop over the detections from the one at the head of dets on
RECURSIVE MatchFrom(_, _, _, _, _, _)
MatchFrom(dets, existing_ids, ppl, nid, active_ids, now) ==
    IF dets = << >>
      THEN [people |-> ppl, next_id |-> nid, active_ids |-> active_ids]
      ELSE LET det == Head(dets)
               near == Near(det.hip, Unmatched(existing_ids, active_ids), ppl)
               matched_id == IF near = {} THEN nid
                             ELSE Nearest(det.hip, near, ppl)
           IN  MatchFrom(Tail(dets), existing_ids,
                         Updated(ppl, matched_id, det, now),
                         IF near = {} THEN nid + 1 ELSE nid,
                         Append(active_ids, matched_id), now)

\* the persons the cleanup at the end of the generator deletes
stale_ids(ppl, current_time) ==
    {pid \in DOMAIN ppl : current_time - ppl[pid].last_seen > stale_seconds}

\* _match_persons run to its end by analyze, at time now
_match_persons(new_landmarks_list, now) ==
    \E r \in {MatchFrom(new_landmarks_list, DOMAIN people, people, next_id,
                        << >>, now)} :
        \E gone \in {stale_ids(r.people, now)} :
            /\ people' = [pid \in DOMAIN r.people \ gone |-> r.people[pid]]
            /\ next_id' = r.next_id
            /\ matched_ids' = r.active_ids
            /\ removed_ids' = removed_ids \cup gone

PersonsInit ==
    /\ EngineInit(FPS_ASSUMED)
    /\ EnvInit
    /\ scenario = "none"
    /\ motion_level = 10

\* what a frame of the PoseAnalyzer leaves alone
PersonsFrame ==
    /\ UNCHANGED <<_last_alert_time, _alert_count, _is_playing, _cached_location,
                   _cache_time, emergency_contact_email, op, triggered,
                   audio_started, email_started, foreground_requests,
                   last_true_time, true_gap, reset_since, gap_reset>>
    /\ UNCHANGED <<engine_vars, env_vars, observer_vars, query_vars, replay_vars,
                   tracker_vars, iou_vars, analyzer_vars, score_vars, pose_vars,
                   symmetry_vars, credit_vars, audio_vars>>

\* analyze on a frame with poses, dt seconds after the frame before
AnalyzeFrame ==
    /\ \E dt \in FrameGaps, dets \in DetectionLists :
          /\ clock + dt <= StartTime + MaxPersonTime
          /\ clock' = clock + dt
          /\ detections' = dets
          /\ _match_persons(dets, clock + dt)
    /\ PersonsFrame

\* analyze on a frame without poses: it returns before the matching
NoPoseFrame ==
    /\ \E dt \in FrameGaps :
          /\ clock + dt <= StartTime + MaxPersonTime
          /\ clock' = clock + dt
    /\ detections' = << >>
    /\ matched_ids' = << >>
    /\ UNCHANGED <<people, next_id, removed_ids>>
    /\ PersonsFrame

PersonsNext == AnalyzeFrame \/ NoPoseFrame

SpecPersons == PersonsInit /\ [][PersonsNext]_vars

\* the detection at index i is not nearer than the threshold to any person
\* held before the frame that no earlier detection of the frame was given
FarFromUnmatched(i) ==
    \A pid \in DOMAIN people :
        (\A j \in 1..(i - 1) : matched_ids'[j] # pid)
            => Dist2(people[pid].centroid, detections'[i].hip)
                   >= min_dist * min_dist

\* C39: within a frame no two detections get the same id, so no person is
\* matched twice; every id is that of a person held before the frame or a
\* fresh one; a detection far from every unmatched person gets a fresh id;
\* and the id of a person removed as stale is never given again.
C39_MatchPersons ==
    /\ [](\A pid \in removed_ids : pid \notin DOMAIN people /\ pid < next_id)
    /\ [][/\ next_id' >= next_id
          /\ \A i, j \in DOMAIN matched_ids' :
                 i # j => matched_ids'[i] # matched_ids'[j]
          /\ \A i \in DOMAIN matched_ids' :
                 /\ \/ matched_ids'[i] \in DOMAIN people
                    \/ matched_ids'[i] >= next_id /\ matched_ids'[i] < next_id'
                 /\ matched_ids'[i] \notin removed_ids
                 /\ FarFromUnmatched(i) => matched_ids'[i] >= next_id]_vars

\* two detections at the same hip centre: the first takes a person held
\* before the frame, the second, which has no unmatched person left near it,
\* a fresh id, after an earlier person was removed as stale
C39_Witness ==
    /\ Len(matched_ids) = 2
    /\ detections[1].hip = detections[2].hip
    /\ matched_ids[2] = next_id - 1
    /\ matched_ids[1] < matched_ids[2] - 1
    /\ removed_ids # {}
====
